---- MODULE Spec2Model ----
(***************************************************************************)
(* Particle-life simulation core: the CPU worlds of src/src/mq/sim.rs (the *)
(* full force pass, variant "mq") and src/src/sim.rs (the rolling slice,   *)
(* variant "rolling").                                                     *)
(*                                                                         *)
(* Numbers.  The code computes in f32.  The model computes in fixed point: *)
(* every scalar is an integer counting 1/Unit, so the float 1.0 is Unit    *)
(* and the world is 1000*Unit wide.  Products and quotients round toward   *)
(* zero (TDiv), which is sign-symmetric as the float operations are.       *)
(* Squared distances are kept in 1/Unit^2 and compared unrounded.          *)
(***************************************************************************)
EXTENDS Integers, Sequences, FiniteSets, TLC

\* Fixed-point resolution: the float 1.0.
Unit == 10
\* Cap on the step counter World.i (the code's u64 is unbounded).
MaxSteps == 2

\* SimConfig::default().bound = Rect(ZERO, (1000, 800))
WorldW == 1000
WorldH == 800
\* aoe 100, cursor_aoe 200 (SimConfig::default: aoe2, cursor_aoe2)
Aoe == 100
CursorAoe == 200

VARIABLES
  conf,                 \* World.conf (SimConfig) and which World it is
  cultures,             \* World.cultures[c].particles[p] = [pos, vel]
  qt,                   \* World.cultures[c].qt: the weighted points it was built from
  gravity_mesh,         \* World.gravity_mesh[c1][c2]
  force_tensor,         \* World.force_tensor[c][p]
  cursor_force_tensor,  \* World.cursor_force_tensor[c][p]
  i,                    \* World.i
  pc,                   \* position inside step: idle, rebuild, force, cursor, integrate
  tau,                  \* the argument of the running step call
  button,               \* the mouse button the running step read: none, left, right
  prev,                 \* history: cultures as they were when the running step was entered
  init,                 \* history: cultures as World::new made them
  row_i,                \* history: row_i[c] = value of i when step last recomputed row c;
                        \* -1 if never written, -2 if compute_force_naive wrote it last
  held,                 \* history: some step since construction read a held button
  kin,                  \* kernel harness: the arguments of a kernel call
  kout,                 \* kernel harness: which kernel was called and what it returned
  tree,                 \* quadtree harness: the QuadTree (src/wasm/src/qt.rs)
  inserted,             \* quadtree harness: the insert calls made, [point, ok] each
  measured,             \* quadtree harness: what measure_nodes returned at the root
  query,                \* quadtree harness: the arguments of approximate_points
  emitted,              \* quadtree harness: what approximate_points returned
  qpc,                  \* quadtree harness: rest, build, measured, queried
  gparams,              \* GPU paths: the GpuParams handed to State::new
  gparticles,           \* GPU paths: the particles State::new wrote to both buffers
  gstate,               \* GPU paths: State (buffer fields, swap flag, time_acc)
  gmem,                 \* GPU paths: what the device buffers A, B and the vertex buffer V hold
  glog,                 \* history: the compute passes run, [read, write, copy, frame] each
  gridq,                \* grid harness: the query made and the particles it enumerated
  bin,                  \* bin harness: the five bin buffers of the device
  bpc,                  \* bin harness: the tick, the pass running, the invocations done
  mesh_json,            \* construction harness: conf.mesh_json handed to World::new
  gpu,                  \* World.gpu: <<>> for None, else the GpuCompute and its last result
  app,                  \* App.conf (the UI Config) and the number of resets, <<>> without App
  exported,             \* construction harness: the export calls, [json, mesh] each
  npc                   \* construction harness: rest, built, exported, imported, reexported

kernelVars == <<kin, kout>>

qtVars == <<tree, inserted, measured, query, emitted, qpc>>

gpuVars == <<gparams, gparticles, gstate, gmem, glog, gridq, bin, bpc>>

ctorVars == <<mesh_json, exported, npc, gpu, app>>

\* Everything outside the two Worlds and the kernel harness
auxVars == <<qtVars, gpuVars, ctorVars>>

vars == <<conf, cultures, qt, gravity_mesh, force_tensor, cursor_force_tensor,
          i, pc, tau, button, prev, init, row_i, held, kin, kout,
          tree, inserted, measured, query, emitted, qpc,
          gparams, gparticles, gstate, gmem, glog, gridq, bin, bpc,
          mesh_json, exported, npc, gpu, app>>

----------------------------------------------------------------------------
\* Fixed-point arithmetic

Abs(a) == IF a < 0 THEN -a ELSE a
Sign(a) == IF a < 0 THEN -1 ELSE IF a > 0 THEN 1 ELSE 0

\* Quotient rounded toward zero, b > 0
TDiv(a, b) == IF a >= 0 THEN a \div b ELSE -((-a) \div b)

\* a * b for fixed-point a, b
FMul(a, b) == TDiv(a * b, Unit)

RECURSIVE IsqrtIter(_, _, _)
IsqrtIter(n, lo, hi) ==
  IF hi - lo <= 1 THEN lo
  ELSE LET mid == (lo + hi) \div 2 IN
       IF mid * mid <= n THEN IsqrtIter(n, mid, hi) ELSE IsqrtIter(n, lo, mid)

\* floor(sqrt(n)), 0 <= n < 2^31
Isqrt(n) == IsqrtIter(n, 0, 46341)

Vec2(x, y) == [x |-> x, y |-> y]
ZERO == Vec2(0, 0)
VAdd(a, b) == Vec2(a.x + b.x, a.y + b.y)
VSub(a, b) == Vec2(a.x - b.x, a.y - b.y)
\* Vec2 * f32
VMul(a, k) == Vec2(FMul(a.x, k), FMul(a.y, k))
\* Vec2 / (n as f32), n a count
VDivN(a, n) == Vec2(TDiv(a.x, n), TDiv(a.y, n))

\* Vec2::distance_squared, in 1/Unit^2
DistanceSquared(a, b) == (a.x - b.x) * (a.x - b.x) + (a.y - b.y) * (a.y - b.y)

\* One component of v / |v|: sign(a) * sqrt(a^2 / |v|^2), rounded toward zero
NormComp(a, d2) == Sign(a) * Isqrt((a * a * Unit * Unit) \div d2)

\* Vec2::normalize, v /= 0
Normalize(v) ==
  LET d2 == v.x * v.x + v.y * v.y IN Vec2(NormComp(v.x, d2), NormComp(v.y, d2))

\* floor of Vec2::length
Length(v) == Isqrt(v.x * v.x + v.y * v.y)

----------------------------------------------------------------------------
\* Configuration and index sets

C == conf.num_cultures
S == conf.culture_size
Cs == 0 .. (C - 1)
Ps == 0 .. (S - 1)

\* conf.bound.bb()
Bound == Vec2(WorldW * Unit, WorldH * Unit)

\* Particle: [pos, vel]
Particle(pos, vel) == [pos |-> pos, vel |-> vel]
\* WeightedPoint::new(pos, mass)
WeightedPoint(pos, mass) == [pos |-> pos, mass |-> mass]

----------------------------------------------------------------------------
\* Force kernels (Particle)

\* Particle::_naive_force: the force another particle exerts on this one
NaiveForce(self_pos, other_pos, g, aoe2) ==
  LET d2 == DistanceSquared(self_pos, other_pos) IN
  IF d2 > 0 /\ d2 <= aoe2
  THEN VMul(Normalize(VSub(other_pos, self_pos)), g)
  ELSE ZERO

\* Particle::force: the force a weighted point exerts on this particle
\* Particle::force with the cutoff taken exclusive: a sample at distance r is ignored
ForceCutoffExclusive(self_pos, point, g, aoe2) ==
  LET d2 == DistanceSquared(self_pos, point.pos) IN
  IF d2 > 0 /\ d2 < aoe2
  THEN LET dir == Normalize(VSub(point.pos, self_pos))
           f == VMul(dir, g)
       IN Vec2(f.x * point.mass, f.y * point.mass)
  ELSE ZERO

\* Particle::force with the direction taken from the sample to the particle
ForceReversed(self_pos, point, g, aoe2) ==
  LET d2 == DistanceSquared(self_pos, point.pos) IN
  IF d2 > 0 /\ d2 <= aoe2
  THEN LET dir == Normalize(VSub(self_pos, point.pos))
           f == VMul(dir, g)
       IN Vec2(f.x * point.mass, f.y * point.mass)
  ELSE ZERO

\* Particle::force without the factor g
ForceIgnoresG(self_pos, point, g, aoe2) ==
  LET d2 == DistanceSquared(self_pos, point.pos) IN
  IF d2 > 0 /\ d2 <= aoe2
  THEN LET dir == Normalize(VSub(point.pos, self_pos))
       IN Vec2(dir.x * point.mass, dir.y * point.mass)
  ELSE ZERO

Force(self_pos, point, g, aoe2) ==
  LET d2 == DistanceSquared(self_pos, point.pos) IN
  IF d2 > 0 /\ d2 <= aoe2
  THEN LET dir == Normalize(VSub(point.pos, self_pos))
           f == VMul(dir, g)
       IN Vec2(f.x * point.mass, f.y * point.mass)
  ELSE ZERO

\* Particle::cursor_force; mouse = [button, pos] is macroquad's input state
CursorForce(self_pos, mouse, caoe2, cforce) ==
  LET d2 == DistanceSquared(mouse.pos, self_pos) IN
  IF mouse.button = "left"
  THEN IF d2 > 0 /\ d2 <= caoe2
       THEN VMul(Normalize(VSub(mouse.pos, self_pos)), -cforce)
       ELSE ZERO
  ELSE IF mouse.button = "right"
  THEN IF d2 > 0 /\ d2 <= caoe2
       THEN VMul(Normalize(VSub(mouse.pos, self_pos)), cforce)
       ELSE ZERO
  ELSE ZERO

----------------------------------------------------------------------------
\* Culture

\* Culture::quadtree: the index is rebuilt from copies of (position, mass 1)
\* Culture::quadtree that keeps an index once it is built
QuadtreeBuiltOnce(c) ==
  IF qt[c] = <<>>
  THEN [k \in 1 .. S |-> WeightedPoint(cultures[c][k - 1].pos, 1)]
  ELSE qt[c]

Quadtree(c) == [k \in 1 .. S |-> WeightedPoint(cultures[c][k - 1].pos, 1)]

\* BHQuadtree::accumulate as Culture::force calls it: the sum of the kernel
\* over the weighted points of the index, here the points it was built from
\* (the exact index, theta = 0)
RECURSIVE Accumulate(_, _, _, _, _)
Accumulate(items, n, q, g, aoe2) ==
  IF n = 0 THEN ZERO
  ELSE VAdd(Accumulate(items, n - 1, q, g, aoe2), Force(q, items[n], g, aoe2))

\* Culture::force: per particle of culture c1, the force of culture c2's index
CultureForce(c1, c2, g, aoe2) ==
  [p \in Ps |-> Accumulate(qt[c2], Len(qt[c2]), cultures[c1][p].pos, g, aoe2)]

RECURSIVE NaiveFold(_, _, _, _, _)
NaiveFold(c2, n, q, g, aoe2) ==
  IF n = 0 THEN ZERO
  ELSE VAdd(NaiveFold(c2, n - 1, q, g, aoe2),
            NaiveForce(q, cultures[c2][n - 1].pos, g, aoe2))

\* Culture::_naive_force: per particle of c1, the fold over c2's particles
CultureNaiveForce(c1, c2, g, aoe2) ==
  [p \in Ps |-> NaiveFold(c2, S, cultures[c1][p].pos, g, aoe2)]

----------------------------------------------------------------------------
\* World: the force pass

\* World::compute_force, the loop over c2, reading the mesh as [source][target]
RECURSIVE RowAccTransposed(_, _)
RowAccTransposed(c1, n) ==
  IF n = 0 THEN [p \in Ps |-> ZERO]
  ELSE LET acc == RowAccTransposed(c1, n - 1)
           forces == CultureForce(c1, n - 1, gravity_mesh[n - 1][c1], conf.aoe2)
       IN [p \in Ps |-> VAdd(acc[p], forces[p])]

\* World::compute_force, the loop over c2: the row of c1 zeroed, then the
\* forces of cultures 0 .. n-1 added in that order
RECURSIVE RowAcc(_, _)
RowAcc(c1, n) ==
  IF n = 0 THEN [p \in Ps |-> ZERO]
  ELSE LET acc == RowAcc(c1, n - 1)
           forces == CultureForce(c1, n - 1, gravity_mesh[c1][n - 1], conf.aoe2)
       IN [p \in Ps |-> VAdd(acc[p], forces[p])]

\* World::compute_force without the fill(Vec2::ZERO) of the row
ComputeForceRowNoZero(c1) ==
  [p \in Ps |-> VDivN(VAdd(force_tensor[c1][p], RowAcc(c1, C)[p]), C)]

\* World::compute_force without the division by the number of cultures
ComputeForceRowNoDivide(c1) == [p \in Ps |-> RowAcc(c1, C)[p]]

\* World::compute_force, one c1: zero, accumulate over all c2, divide by C
ComputeForceRow(c1) == [p \in Ps |-> VDivN(RowAcc(c1, C)[p], C)]

\* World::compute_force_naive, the loop over c2
RECURSIVE NaiveRowAcc(_, _)
NaiveRowAcc(c1, n) ==
  IF n = 0 THEN [p \in Ps |-> ZERO]
  ELSE LET acc == NaiveRowAcc(c1, n - 1)
           forces == CultureNaiveForce(c1, n - 1, gravity_mesh[c1][n - 1], conf.aoe2)
       IN [p \in Ps |-> VAdd(acc[p], forces[p])]

\* World::compute_force_naive, one c1
ComputeForceNaiveRow(c1) == [p \in Ps |-> VDivN(NaiveRowAcc(c1, C)[p], C)]

\* World::compute_force_tensor_slice (rolling world): row c1 zeroed and
\* accumulated over all c2, not yet divided
RECURSIVE SliceAcc(_, _)
SliceAcc(c1, n) ==
  IF n = 0 THEN [p \in Ps |-> ZERO]
  ELSE LET acc == SliceAcc(c1, n - 1)
           forces == CultureForce(c1, n - 1, gravity_mesh[c1][n - 1], conf.aoe2)
       IN [p \in Ps |-> VAdd(acc[p], forces[p])]

ComputeForceTensorSlice(c1) == SliceAcc(c1, C)

\* The rolling row taken one step ahead
RollingRowAhead == (i + 1) % C

\* The row the rolling world's step recomputes: self.i % self.cultures.len()
RollingRow == i % C

----------------------------------------------------------------------------
\* World: integration

\* One axis of the wall reflection: [v, p] after the clamp
\* The wall clamp without the reflection of the velocity
ClampAxisNoReflect(p, v, hi) ==
  IF p <= 0 THEN [v |-> v, p |-> 0]
  ELSE IF p >= hi THEN [v |-> v, p |-> hi]
  ELSE [v |-> v, p |-> p]

ClampAxis(p, v, hi) ==
  IF p <= 0 THEN [v |-> Abs(v), p |-> 0]
  ELSE IF p >= hi THEN [v |-> -Abs(v), p |-> hi]
  ELSE [v |-> v, p |-> p]

\* World::apply_force_tensor, the body of the loop for one particle
Integrate(particle, force, t) ==
  LET vel0 == VMul(VAdd(particle.vel, force), conf.damping)
      ax == ClampAxis(particle.pos.x, vel0.x, Bound.x)
      ay == ClampAxis(particle.pos.y, vel0.y, Bound.y)
      vel1 == Vec2(ax.v, ay.v)
      pos1 == Vec2(ax.p, ay.p)
  IN Particle(VAdd(pos1, VMul(vel1, t)), vel1)

----------------------------------------------------------------------------
\* Inputs

\* step(tau): 0.5 and 1.0
TauSet == {Unit \div 2, Unit}

\* Where the cursor may be when a button is held
MousePoints == {Vec2(0, 400 * Unit), Vec2(0, 750 * Unit), Vec2(0, 800 * Unit)}

MouseStates ==
  {[button |-> "none", pos |-> ZERO]}
    \cup {[button |-> b, pos |-> m] : b \in {"left", "right"}, m \in MousePoints}

\* SimConfig as the harnesses freeze it; the rolling world has no
\* is_interactive field and always reads the cursor
SimConfig(variant, nc, cs, damping, interactive) ==
  [variant |-> variant, num_cultures |-> nc, culture_size |-> cs,
   aoe2 |-> (Aoe * Unit) * (Aoe * Unit), damping |-> damping,
   cursor_aoe2 |-> (CursorAoe * Unit) * (CursorAoe * Unit),
   cursor_force |-> 100 * Unit, is_interactive |-> interactive, gpu |-> FALSE]

Kinds == {<<"mq", TRUE>>, <<"mq", FALSE>>, <<"rolling", TRUE>>}
DampingSet == {Unit, Unit \div 2}

\* A gravity mesh from rows of whole coefficients
Mesh(rows) ==
  [c1 \in 0 .. (Len(rows) - 1) |->
     [c2 \in 0 .. (Len(rows) - 1) |-> rows[c1 + 1][c2 + 1] * Unit]]

Meshes(nc) ==
  IF nc = 1 THEN {Mesh(<<<<0>>>>), Mesh(<<<<1>>>>)}
  ELSE {Mesh(<<<<0, 0>>, <<0, 0>>>>), Mesh(<<<<0, -1>>, <<-1, 0>>>>),
        Mesh(<<<<-1, -1>>, <<1, 1>>>>)}

\* (num_cultures, culture_size) of the worlds built
Shapes == {<<1, 1>>, <<2, 1>>, <<2, 2>>}

\* Particle::new draws whole coordinates in [0, W) x [0, H)
StartPoints(nc, cs) ==
  IF nc = 1
  THEN {Vec2(x * Unit, y * Unit) : x \in {0, 100, 400, 410}, y \in {400, 750}}
  ELSE IF cs = 1
  THEN {Vec2(0, 400 * Unit), Vec2(400 * Unit, 400 * Unit), Vec2(410 * Unit, 400 * Unit)}
  ELSE {Vec2(400 * Unit, 400 * Unit), Vec2(410 * Unit, 400 * Unit),
        Vec2(400 * Unit, 410 * Unit), Vec2(410 * Unit, 410 * Unit)}

\* The kernel harness at rest
NoCall == [self_pos |-> ZERO, off |-> ZERO, mass |-> 1, g |-> 0, aoe2 |-> 0]
NoResult == [fn |-> "none", f |-> ZERO]

----------------------------------------------------------------------------
\* World::new

----------------------------------------------------------------------------
\* The quadtree of src/wasm/src/qt.rs. Inserted points have integer
\* coordinates; a centre of mass is a rational position [x, y, d] = (x/d, y/d)
\* in lowest terms, so that no division rounds.

\* insert stops subdividing below this depth
DepthCap == 6

\* The side of the square the harness gives QuadTree::new: every corner of
\* every node down to the depth cap is an integer
QtWorld == 2 ^ (DepthCap + 1)

RECURSIVE Gcd(_, _)
Gcd(a, b) == IF b = 0 THEN a ELSE Gcd(b, a % b)

\* Point2<f64> holding x/d, y/d
Rat(x, y, d) ==
  LET g == Gcd(Gcd(Abs(x), Abs(y)), d)
  IN [x |-> x \div g, y |-> y \div g, d |-> d \div g]

RatOfPoint(pt) == [x |-> pt.x, y |-> pt.y, d |-> 1]

\* pos + other, pos * mass, pos / mass
RatAdd(a, b) == Rat(a.x * b.d + b.x * a.d, a.y * b.d + b.y * a.d, a.d * b.d)

RatScale(a, m) == Rat(a.x * m, a.y * m, a.d)

RatDiv(a, m) == Rat(a.x, a.y, a.d * m)

\* Squared distance of the integer point q from the rational position a, as
\* the pair numerator, denominator
RatDist2(q, a) ==
  [n |-> (q.x * a.d - a.x) * (q.x * a.d - a.x) + (q.y * a.d - a.y) * (q.y * a.d - a.y),
   d |-> a.d * a.d]

\* qt.rs WeightedPoint::new and WeightedPoint::default
QtWeightedPoint(pos, mass) == [pos |-> pos, mass |-> mass]

QtDefaultPoint == QtWeightedPoint(RatOfPoint(ZERO), 0)

\* qt.rs Rect; its centre is computed where it is read
QtRect(start, end) == [start |-> start, end |-> end]

RectCenter(r) == Vec2((r.start.x + r.end.x) \div 2, (r.start.y + r.end.y) \div 2)

\* Rect::contains: component-wise, both ends included
RectContains(r, pt) ==
  /\ pt.x >= r.start.x /\ pt.y >= r.start.y
  /\ pt.x <= r.end.x /\ pt.y <= r.end.y

\* Twice Rect::width (a quarter of the perimeter)
RectWidthTwice(r) == (r.end.x - r.start.x) + (r.end.y - r.start.y)

\* The three shapes of QuadTree
QtEmpty(boundary) ==
  [kind |-> "Empty", boundary |-> boundary, point |-> QtDefaultPoint,
   children |-> <<>>, cm |-> QtDefaultPoint]

QtExternal(boundary, point) ==
  [kind |-> "External", boundary |-> boundary, point |-> point,
   children |-> <<>>, cm |-> QtDefaultPoint]

QtInternal(boundary, children, cm) ==
  [kind |-> "Internal", boundary |-> boundary, point |-> QtDefaultPoint,
   children |-> children, cm |-> cm]

\* QuadTree::new
QtNew(world) == QtEmpty(QtRect(ZERO, world))

\* QuadTree::subdivide
Subdivide(t) ==
  LET start == t.boundary.start
      end == t.boundary.end
      center == RectCenter(t.boundary)
      diff_x == Vec2(center.x - start.x, 0)
      diff_y == Vec2(0, center.y - start.y)
  IN <<QtEmpty(QtRect(start, center)),
       QtEmpty(QtRect(VAdd(start, diff_x), VAdd(center, diff_x))),
       QtEmpty(QtRect(VAdd(start, diff_y), VAdd(center, diff_y))),
       QtEmpty(QtRect(center, end))>>

RECURSIVE QtInsert(_, _, _)
RECURSIVE InsertFirst(_, _, _, _)

\* children.iter_mut().map(|c| c.insert(point, depth)) up to the first child
\* that returns true; k is the child tried next
InsertFirst(children, pt, depth, k) ==
  IF k > 4 THEN [ok |-> FALSE, children |-> children]
  ELSE LET r == QtInsert(children[k], pt, depth)
           after == [children EXCEPT ![k] = r.tree]
       IN IF r.ok THEN [ok |-> TRUE, children |-> after]
          ELSE InsertFirst(after, pt, depth, k + 1)

\* insert with the depth test one level later
QtInsertDeeper(t, pt, depth) ==
  IF ~RectContains(t.boundary, pt) THEN [ok |-> FALSE, tree |-> t]
  ELSE IF t.kind = "Empty"
  THEN [ok |-> TRUE, tree |-> QtExternal(t.boundary, QtWeightedPoint(RatOfPoint(pt), 1))]
  ELSE IF t.kind = "External"
  THEN IF depth > DepthCap + 1 THEN [ok |-> TRUE, tree |-> t]
       ELSE LET p == Vec2(t.point.pos.x, t.point.pos.y)
                first == InsertFirst(Subdivide(t), p, depth + 1, 1)
            IN IF first.ok
               THEN QtInsert(QtInternal(t.boundary, first.children, QtDefaultPoint),
                             pt, depth)
               ELSE [ok |-> FALSE, tree |-> t]
  ELSE LET r == InsertFirst(t.children, pt, depth + 1, 1)
       IN [ok |-> r.ok, tree |-> [t EXCEPT !.children = r.children]]

\* QuadTree::insert: [ok, tree] are the value returned and the tree afterwards.
\* In the External arm the pattern binds point by copy (point: mut p), so the
\* p.mass += 1 beyond the depth cap changes the copy and not the leaf.
QtInsert(t, pt, depth) ==
  IF ~RectContains(t.boundary, pt) THEN [ok |-> FALSE, tree |-> t]
  ELSE IF t.kind = "Empty"
  THEN [ok |-> TRUE, tree |-> QtExternal(t.boundary, QtWeightedPoint(RatOfPoint(pt), 1))]
  ELSE IF t.kind = "External"
  THEN IF depth > DepthCap THEN [ok |-> TRUE, tree |-> t]
       ELSE LET p == Vec2(t.point.pos.x, t.point.pos.y)
                first == InsertFirst(Subdivide(t), p, depth + 1, 1)
            IN IF first.ok
               THEN QtInsert(QtInternal(t.boundary, first.children, QtDefaultPoint),
                             pt, depth)
               ELSE [ok |-> FALSE, tree |-> t]
  ELSE LET r == InsertFirst(t.children, pt, depth + 1, 1)
       IN [ok |-> r.ok, tree |-> [t EXCEPT !.children = r.children]]

RECURSIVE MeasureNodes(_)
RECURSIVE MeasureChildren(_, _)

\* children.iter_mut().filter_map(|c| c.measure_nodes()): every child is
\* measured, found lists the Some results in child order
MeasureChildren(children, k) ==
  IF k > 4 THEN [children |-> children, found |-> <<>>]
  ELSE LET m == MeasureNodes(children[k])
           rest == MeasureChildren([children EXCEPT ![k] = m.tree], k + 1)
       IN [children |-> rest.children,
           found |-> IF m.some THEN <<m.wp>> \o rest.found ELSE rest.found]

\* .reduce(|acc, p| WeightedPoint::new(acc.pos + p.pos.coords * p.mass,
\* acc.mass + p.mass)) over the first n results: the first is taken as it is
RECURSIVE ReduceCm(_, _)
ReduceCm(found, n) ==
  IF n = 1 THEN found[1]
  ELSE LET acc == ReduceCm(found, n - 1)
           p == found[n]
       IN QtWeightedPoint(RatAdd(acc.pos, RatScale(p.pos, p.mass)), acc.mass + p.mass)

\* QuadTree::measure_nodes: [some, wp] is the Option returned, tree the tree
\* afterwards
MeasureNodes(t) ==
  IF t.kind = "Empty" THEN [some |-> FALSE, wp |-> QtDefaultPoint, tree |-> t]
  ELSE IF t.kind = "External" THEN [some |-> TRUE, wp |-> t.point, tree |-> t]
  ELSE LET mc == MeasureChildren(t.children, 1)
       IN IF mc.found = <<>>
          THEN [some |-> FALSE, wp |-> QtDefaultPoint,
                tree |-> [t EXCEPT !.children = mc.children]]
          ELSE LET red == ReduceCm(mc.found, Len(mc.found))
                   cm == QtWeightedPoint(RatDiv(red.pos, red.mass), red.mass)
               IN [some |-> TRUE, wp |-> cm,
                   tree |-> [t EXCEPT !.children = mc.children, !.cm = cm]]

\* na::distance(q, a) > aoe
FartherThan(q, a, aoe) ==
  LET d2 == RatDist2(q, a) IN d2.n > aoe * aoe * d2.d

\* w / d < theta for theta = theta.n / theta.d, d the distance from q to the
\* centre of the boundary (false when d = 0: the quotient is inf or NaN)
WidthRatioBelow(boundary, q, theta) ==
  LET w2 == RectWidthTwice(boundary)
      d2 == DistanceSquared(q, RectCenter(boundary))
  IN (w2 * theta.d) * (w2 * theta.d) < 4 * theta.n * theta.n * d2

\* w / d < theta with d the distance from q to the rational position a
WidthRatioBelowAt(boundary, q, a, theta) ==
  LET w == RectWidthTwice(boundary) \div 2
      d2 == RatDist2(q, a)
  IN theta.n > 0 /\ (w * theta.d * a.d) * (w * theta.d * a.d) < theta.n * theta.n * d2.n

RECURSIVE ApproximatePoints(_, _, _, _)
RECURSIVE ApproximateChildren(_, _, _, _, _)

\* children.iter().map(|c| c.approximate_points(..)).flatten().flatten()
ApproximateChildren(children, q, aoe, theta, k) ==
  IF k > 4 THEN [pts |-> <<>>, from |-> <<>>]
  ELSE LET r == ApproximatePoints(children[k], q, aoe, theta)
           rest == ApproximateChildren(children, q, aoe, theta, k + 1)
       IN IF r.some THEN [pts |-> r.pts \o rest.pts, from |-> r.from \o rest.from]
          ELSE rest

\* approximate_points that emits an accepted centre of mass and still
\* descends into the children
ApproximatePointsStillDescends(t, q, aoe, theta) ==
  IF t.kind = "Empty" THEN [some |-> FALSE, pts |-> <<>>, from |-> <<>>]
  ELSE IF t.kind = "External"
  THEN IF FartherThan(q, t.point.pos, aoe)
       THEN [some |-> FALSE, pts |-> <<>>, from |-> <<>>]
       ELSE [some |-> TRUE, pts |-> <<t.point>>, from |-> <<t.boundary>>]
  ELSE LET below == ApproximateChildren(t.children, q, aoe, theta, 1) IN
       IF WidthRatioBelow(t.boundary, q, theta) /\ ~FartherThan(q, t.cm.pos, aoe)
       THEN [some |-> TRUE, pts |-> <<t.cm>> \o below.pts,
             from |-> <<t.boundary>> \o below.from]
       ELSE [some |-> TRUE, pts |-> below.pts, from |-> below.from]

\* approximate_points in which the distance from q to the centre of mass
\* decides the cutoff and the ratio of an internal node, and a node beyond
\* the cutoff is skipped with its children
ApproximatePointsByCm(t, q, aoe, theta) ==
  IF t.kind = "Empty" THEN [some |-> FALSE, pts |-> <<>>, from |-> <<>>]
  ELSE IF t.kind = "External"
  THEN IF FartherThan(q, t.point.pos, aoe)
       THEN [some |-> FALSE, pts |-> <<>>, from |-> <<>>]
       ELSE [some |-> TRUE, pts |-> <<t.point>>, from |-> <<t.boundary>>]
  ELSE IF FartherThan(q, t.cm.pos, aoe)
  THEN [some |-> FALSE, pts |-> <<>>, from |-> <<>>]
  ELSE IF WidthRatioBelowAt(t.boundary, q, t.cm.pos, theta)
  THEN [some |-> TRUE, pts |-> <<t.cm>>, from |-> <<t.boundary>>]
  ELSE LET below == ApproximateChildren(t.children, q, aoe, theta, 1)
       IN [some |-> TRUE, pts |-> below.pts, from |-> below.from]

\* QuadTree::approximate_points for a particle at q with radius aoe: [some,
\* pts] is the Option returned; from is history, the boundary of the node
\* each returned point was taken from
ApproximatePoints(t, q, aoe, theta) ==
  IF t.kind = "Empty" THEN [some |-> FALSE, pts |-> <<>>, from |-> <<>>]
  ELSE IF t.kind = "External"
  THEN IF FartherThan(q, t.point.pos, aoe)
       THEN [some |-> FALSE, pts |-> <<>>, from |-> <<>>]
       ELSE [some |-> TRUE, pts |-> <<t.point>>, from |-> <<t.boundary>>]
  ELSE IF WidthRatioBelow(t.boundary, q, theta)
  THEN IF FartherThan(q, t.cm.pos, aoe)
       THEN [some |-> FALSE, pts |-> <<>>, from |-> <<>>]
       ELSE [some |-> TRUE, pts |-> <<t.cm>>, from |-> <<t.boundary>>]
  ELSE LET below == ApproximateChildren(t.children, q, aoe, theta, 1)
       IN [some |-> TRUE, pts |-> below.pts, from |-> below.from]

\* The quadtree harness at rest
QtAtRest ==
  /\ tree = <<>>
  /\ inserted = <<>>
  /\ measured = <<>>
  /\ query = <<>>
  /\ emitted = <<>>
  /\ qpc = "rest"

\* The GPU paths at rest
GpuAtRest ==
  /\ gparams = <<>>
  /\ gparticles = <<>>
  /\ gstate = <<>>
  /\ gmem = <<>>
  /\ glog = <<>>
  /\ gridq = <<>>
  /\ bin = <<>>
  /\ bpc = <<>>

\* The construction harness at rest
CtorAtRest ==
  /\ gpu = <<>>
  /\ app = <<>>
  /\ mesh_json = <<>>
  /\ exported = <<>>
  /\ npc = "rest"

\* The harnesses outside the Worlds at rest
AuxAtRest == QtAtRest /\ GpuAtRest /\ CtorAtRest

NewWorld(cf, mesh, places) ==
  /\ conf = cf
  /\ gravity_mesh = mesh
  /\ cultures = [c \in 0 .. (cf.num_cultures - 1) |->
                   [p \in 0 .. (cf.culture_size - 1) |-> Particle(places[c][p], ZERO)]]
  /\ qt = [c \in 0 .. (cf.num_cultures - 1) |-> <<>>]
  /\ force_tensor = [c \in 0 .. (cf.num_cultures - 1) |->
                       [p \in 0 .. (cf.culture_size - 1) |-> ZERO]]
  /\ cursor_force_tensor = [c \in 0 .. (cf.num_cultures - 1) |->
                              [p \in 0 .. (cf.culture_size - 1) |-> ZERO]]
  /\ i = 0
  /\ pc = "idle"
  /\ tau = 0
  /\ button = "none"
  /\ prev = cultures
  /\ init = cultures
  /\ row_i = [c \in 0 .. (cf.num_cultures - 1) |-> -1]
  /\ held = FALSE

\* The two-by-two worlds are built as the bench harness builds its world,
\* is_interactive false and the default damping
Families == {f \in Kinds \X Shapes : f[2] = <<2, 2>> => f[1] = <<"mq", FALSE>>}

Init ==
  \E fam \in Families, d \in DampingSet :
   LET k == fam[1]
       sh == fam[2]
   IN
    /\ sh = <<2, 2>> => d = Unit \div 2
    /\ \E mesh \in Meshes(sh[1]) :
      \E places \in [0 .. (sh[1] - 1) -> [0 .. (sh[2] - 1) -> StartPoints(sh[1], sh[2])]] :
        /\ NewWorld(SimConfig(k[1], sh[1], sh[2], d, k[2]), mesh, places)
        /\ kin = NoCall
        /\ kout = NoResult
        /\ AuxAtRest

----------------------------------------------------------------------------
\* World::step, phase by phase, and World::compute_force_naive

\* step is entered
StepCall ==
  /\ pc = "idle"
  /\ i < MaxSteps
  /\ \E t \in TauSet : tau' = t
  /\ prev' = cultures
  /\ pc' = "rebuild"
  /\ UNCHANGED <<conf, cultures, qt, gravity_mesh, force_tensor,
                 cursor_force_tensor, i, button, init, row_i, held, kernelVars, auxVars>>

\* "Regenerate quadtrees": every culture's index is rebuilt
Rebuild ==
  /\ pc = "rebuild"
  /\ gpu = <<>>
  /\ qt' = [c \in Cs |-> Quadtree(c)]
  /\ pc' = "force"
  /\ UNCHANGED <<conf, cultures, gravity_mesh, force_tensor, cursor_force_tensor,
                 i, tau, button, prev, init, row_i, held, kernelVars, auxVars>>

\* self.gravity_mesh[c1][c2] is inside the mesh for every c1 and c2 that
\* compute_force indexes it with
MeshInRange ==
  \A c1 \in Cs :
    /\ c1 \in DOMAIN gravity_mesh
    /\ \A c2 \in Cs : c2 \in DOMAIN gravity_mesh[c1]

\* mq world: every row of the force tensor is recomputed; an index outside
\* the mesh panics and the World is not used again
ComputeForce ==
  /\ pc = "force"
  /\ conf.variant = "mq"
  /\ IF MeshInRange
     THEN /\ force_tensor' = [c1 \in Cs |-> ComputeForceRow(c1)]
          /\ row_i' = [c1 \in Cs |-> i]
          /\ pc' = "cursor"
     ELSE /\ pc' = "panicked"
          /\ UNCHANGED <<force_tensor, row_i>>
  /\ UNCHANGED <<conf, cultures, qt, gravity_mesh, cursor_force_tensor,
                 i, tau, button, prev, init, held, kernelVars, auxVars>>

\* rolling world: one row is recomputed and divided, the others are kept
ComputeSlice ==
  /\ pc = "force"
  /\ conf.variant = "rolling"
  /\ force_tensor' = [force_tensor EXCEPT ![RollingRow] =
                        [p \in Ps |-> VDivN(ComputeForceTensorSlice(RollingRow)[p], C)]]
  /\ row_i' = [row_i EXCEPT ![RollingRow] = i]
  /\ pc' = "cursor"
  /\ UNCHANGED <<conf, cultures, qt, gravity_mesh, cursor_force_tensor,
                 i, tau, button, prev, init, held, kernelVars, auxVars>>

\* The cursor pass writing the cursor force tensor only while a button is held
ComputeCursorForceSkipsIdle ==
  /\ pc = "cursor"
  /\ IF conf.is_interactive
     THEN \E m \in MouseStates :
            /\ cursor_force_tensor' =
                 IF m.button = "none" THEN cursor_force_tensor
                 ELSE [c \in Cs |-> [p \in Ps |->
                         CursorForce(cultures[c][p].pos, m, conf.cursor_aoe2,
                                     conf.cursor_force)]]
            /\ button' = m.button
            /\ held' = (held \/ m.button /= "none")
     ELSE /\ button' = "none"
          /\ UNCHANGED <<cursor_force_tensor, held>>
  /\ pc' = "integrate"
  /\ UNCHANGED <<conf, cultures, qt, gravity_mesh, force_tensor, i, tau, prev, init,
                 row_i, kernelVars, auxVars>>

\* "Compute cursor force tensor"
ComputeCursorForce ==
  /\ pc = "cursor"
  /\ IF conf.is_interactive
     THEN \E m \in MouseStates :
            /\ cursor_force_tensor' =
                 [c \in Cs |-> [p \in Ps |->
                    CursorForce(cultures[c][p].pos, m, conf.cursor_aoe2, conf.cursor_force)]]
            /\ button' = m.button
            /\ held' = (held \/ m.button /= "none")
     ELSE /\ button' = "none"
          /\ UNCHANGED <<cursor_force_tensor, held>>
  /\ pc' = "integrate"
  /\ UNCHANGED <<conf, cultures, qt, gravity_mesh, force_tensor, i, tau, prev, init,
                 row_i, kernelVars, auxVars>>

\* World::apply_force_tensor, then self.i += 1
ApplyForceTensor ==
  /\ pc = "integrate"
  /\ cultures' = [c \in Cs |-> [p \in Ps |->
        Integrate(cultures[c][p], VAdd(force_tensor[c][p], cursor_force_tensor[c][p]), tau)]]
  /\ i' = i + 1
  /\ pc' = "idle"
  /\ UNCHANGED <<conf, qt, gravity_mesh, force_tensor, cursor_force_tensor,
                 tau, button, prev, init, row_i, held, kernelVars, auxVars>>

\* World::compute_force_naive, called between steps (mq world)
ComputeForceNaive ==
  /\ pc = "idle"
  /\ conf.variant = "mq"
  /\ force_tensor' = [c1 \in Cs |-> ComputeForceNaiveRow(c1)]
  /\ row_i' = [c1 \in Cs |-> -2]
  /\ UNCHANGED <<conf, cultures, qt, gravity_mesh, cursor_force_tensor,
                 i, pc, tau, button, prev, init, held, kernelVars, auxVars>>

Next ==
  \/ StepCall
  \/ Rebuild
  \/ ComputeForce
  \/ ComputeSlice
  \/ ComputeCursorForce
  \/ ApplyForceTensor
  \/ ComputeForceNaive

Spec == Init /\ [][Next]_vars

----------------------------------------------------------------------------
\* Kernel harness: the force kernels applied to arguments drawn from bounded
\* sets, beside a world that is not stepped

KernelOffsets ==
  {Vec2(0, 0), Vec2(1, 0), Vec2(3 * Unit, 4 * Unit), Vec2(-10 * Unit, -10 * Unit),
   Vec2(0, -50 * Unit), Vec2(Aoe * Unit, 0), Vec2(60 * Unit, 80 * Unit),
   Vec2(Aoe * Unit + 1, 0), Vec2(-60 * Unit, 81 * Unit), Vec2(0, 300 * Unit)}

KernelArgs ==
  [self_pos : {Vec2(400 * Unit, 400 * Unit), Vec2(0, 0)},
   off : KernelOffsets,
   mass : {1, 2, 3},
   g : {-Unit, 0, Unit \div 2, Unit},
   aoe2 : {(Aoe * Unit) * (Aoe * Unit)}]

\* The sample point of a kernel call
KernelSample(a) == VAdd(a.self_pos, a.off)

InitKernel ==
  /\ NewWorld(SimConfig("mq", 1, 1, Unit, FALSE), Mesh(<<<<0>>>>),
              [c \in {0} |-> [p \in {0} |-> Vec2(0, 0)]])
  /\ kin \in KernelArgs
  /\ kout = NoResult
  /\ AuxAtRest

\* Particle::force is called
CallForce ==
  /\ kout = NoResult
  /\ kout' = [fn |-> "force",
              f |-> Force(kin.self_pos, WeightedPoint(KernelSample(kin), kin.mass),
                          kin.g, kin.aoe2)]
  /\ UNCHANGED <<conf, cultures, qt, gravity_mesh, force_tensor, cursor_force_tensor,
                 i, pc, tau, button, prev, init, row_i, held, kin, auxVars>>

\* Particle::_naive_force is called
CallNaiveForce ==
  /\ kout = NoResult
  /\ kout' = [fn |-> "naive",
              f |-> NaiveForce(kin.self_pos, KernelSample(kin), kin.g, kin.aoe2)]
  /\ UNCHANGED <<conf, cultures, qt, gravity_mesh, force_tensor, cursor_force_tensor,
                 i, pc, tau, button, prev, init, row_i, held, kin, auxVars>>

NextKernel ==
  \/ CallForce
  \/ CallNaiveForce

SpecKernel == InitKernel /\ [][NextKernel]_vars

----------------------------------------------------------------------------
\* Quadtree harness: points are inserted into a new tree one call at a time,
\* measure_nodes is run, and one query is made

\* The number of insert calls made on one tree
MaxInserts == 3

\* Points offered to insert: corners and centre of the square, a point on the
\* edge x = 0, two points of one deepest cell, one point outside the square
QtPoints ==
  {Vec2(0, 0), Vec2(QtWorld, QtWorld), Vec2(QtWorld \div 2, QtWorld \div 2),
   Vec2(0, 77), Vec2(10, 10), Vec2(11, 11), Vec2(100, 20), Vec2(QtWorld + 72, 5)}

QtQueryPoints == {Vec2(10, 10), Vec2(QtWorld \div 2, QtWorld \div 2), Vec2(120, 120)}

QtRadii == {15, 200}

Thetas == {[n |-> 0, d |-> 1], [n |-> 1, d |-> 2], [n |-> 2, d |-> 1]}

InitQt ==
  /\ NewWorld(SimConfig("mq", 1, 1, Unit, FALSE), Mesh(<<<<0>>>>),
              [c \in {0} |-> [p \in {0} |-> Vec2(0, 0)]])
  /\ kin = NoCall
  /\ kout = NoResult
  /\ tree = QtNew(Vec2(QtWorld, QtWorld))
  /\ inserted = <<>>
  /\ measured = <<>>
  /\ query = <<>>
  /\ emitted = <<>>
  /\ qpc = "build"
  /\ GpuAtRest
  /\ CtorAtRest

worldVars == <<conf, cultures, qt, gravity_mesh, force_tensor, cursor_force_tensor,
               i, pc, tau, button, prev, init, row_i, held>>

\* tree.insert(point, 0)
QtInsertCall ==
  /\ qpc = "build"
  /\ Len(inserted) < MaxInserts
  /\ \E pt \in QtPoints :
       LET r == QtInsert(tree, pt, 0) IN
       /\ tree' = r.tree
       /\ inserted' = Append(inserted, [point |-> pt, ok |-> r.ok])
  /\ UNCHANGED <<worldVars, kernelVars, gpuVars, ctorVars, measured, query, emitted, qpc>>

\* tree.measure_nodes()
QtMeasureCall ==
  /\ qpc = "build"
  /\ LET m == MeasureNodes(tree) IN
       /\ tree' = m.tree
       /\ measured' = <<[some |-> m.some, wp |-> m.wp]>>
  /\ qpc' = "measured"
  /\ UNCHANGED <<worldVars, kernelVars, gpuVars, ctorVars, inserted, query, emitted>>

\* tree.approximate_points(particle, theta)
QtQueryCall ==
  /\ qpc \in {"build", "measured"}
  /\ \E q \in QtQueryPoints, aoe \in QtRadii, theta \in Thetas :
       /\ query' = <<[q |-> q, aoe |-> aoe, theta |-> theta]>>
       /\ emitted' = <<ApproximatePoints(tree, q, aoe, theta)>>
  /\ qpc' = "queried"
  /\ UNCHANGED <<worldVars, kernelVars, gpuVars, ctorVars, tree, inserted, measured>>

NextQt ==
  \/ QtInsertCall
  \/ QtMeasureCall
  \/ QtQueryCall

SpecQt == InitQt /\ [][NextQt]_vars

----------------------------------------------------------------------------
\* GPU paths: the uniform-grid application (src/wgpu/src/app.rs) and the
\* dense application (src/src/wg/app.rs). The compute shaders are outside the
\* model: what a device buffer holds is named by the compute pass that wrote
\* it and by the pass whose output that pass read.

\* GpuParams.bound is [1000.0, 1000.0] on both paths
GpuBound == 1000

\* The frame clock counts 1 / TimeUnit of a second
TimeUnit == 120

PHYS_DT == TimeUnit \div 60

\* MAX_ACC of six physics steps
MAX_ACC_SixSteps == (6 * TimeUnit) \div 60

MAX_ACC == (5 * TimeUnit) \div 60

\* The macroquad binaries: SIM_TIMESTEP, and the accumulator's cap in steps
SIM_TIMESTEP == TimeUnit \div 60

MAX_ACCUMULATOR == 1

\* f32::ceil(a / b) for positive a and b
CeilDiv(a, b) == (a + b - 1) \div b

\* GpuParams::new with cells of one radius rather than two
GpuParamsNewCellPerAoe(num_cultures, culture_size, aoe, damping) ==
  LET bound == Vec2(GpuBound * Unit, GpuBound * Unit)
      grid_w == CeilDiv(bound.x, aoe)
  IN [bound |-> bound, num_cultures |-> num_cultures, culture_size |-> culture_size,
      num_particles |-> num_cultures * culture_size, aoe |-> aoe, aoe2 |-> aoe * aoe,
      damping |-> damping, bin_size |-> [n |-> bound.x, d |-> grid_w],
      grid_w |-> grid_w]

\* GpuParams::new (uniform-grid path); aoe is in 1 / Unit, bin_size is the
\* exact quotient bound[0] / grid_w, kept as numerator and denominator
GpuParamsNew(num_cultures, culture_size, aoe, damping) ==
  LET bound == Vec2(GpuBound * Unit, GpuBound * Unit)
      grid_w == CeilDiv(bound.x, aoe * 2)
  IN [bound |-> bound, num_cultures |-> num_cultures, culture_size |-> culture_size,
      num_particles |-> num_cultures * culture_size, aoe |-> aoe, aoe2 |-> aoe * aoe,
      damping |-> damping, bin_size |-> [n |-> bound.x, d |-> grid_w],
      grid_w |-> grid_w]

\* The GpuParams literal of App::resumed (dense path)
DenseParams(num_cultures, culture_size, aoe, damping) ==
  [bound |-> Vec2(GpuBound * Unit, GpuBound * Unit), num_cultures |-> num_cultures,
   culture_size |-> culture_size, num_particles |-> num_cultures * culture_size,
   aoe2 |-> aoe * aoe, damping |-> damping]

\* Draws of [rng.random_range(0.0..bound[0]), rng.random_range(0.0..bound[1])]
GpuStartPoints == {Vec2(0, 500 * Unit), Vec2(GpuBound * Unit - 1, 0)}

\* Draws of [rng.random_range(-1.0..1.0), rng.random_range(-1.0..1.0)]
GpuStartVels == {Vec2(-Unit, Unit - 1), Vec2(0, 0), Vec2(Unit \div 2, -1)}

\* GpuParticle::new(bound): the particles these draws give
GpuParticleNew(bound) ==
  {Particle(pos, vel) :
     pos \in {v \in GpuStartPoints : v.x < bound.x /\ v.y < bound.y},
     vel \in GpuStartVels}

\* The bind groups name the device buffers they were created over: binding
\* 0 is the read-only particles, binding 1 the particles written
ParticleBind1 == [read |-> "A", write |-> "B"]

ParticleBind2 == [read |-> "B", write |-> "A"]

\* State::new: the State fields the compute passes use; frame is history,
\* the number of step calls made
GpuStateNew(path) ==
  [path |-> path, particle_buffer_1 |-> "A", particle_buffer_2 |-> "B",
   particle_bind_swap |-> FALSE, time_acc |-> 0, frame |-> 0, events |-> <<>>]

\* State::new: both particle buffers and the vertex buffer hold the initial
\* particles (pass 0)
GpuMemNew == [b \in {"A", "B", "V"} |-> [pass |-> 0, from |-> 0]]

\* State::compute (uniform-grid path) that leaves the swap flag as it was
GridComputeKeepsBind(st) ==
  LET bind == IF st.particle_bind_swap THEN ParticleBind2 ELSE ParticleBind1
      out == IF st.particle_bind_swap THEN st.particle_buffer_1 ELSE st.particle_buffer_2
  IN [st |-> st, cmd |-> [read |-> bind.read, write |-> bind.write, copy |-> out]]

\* State::compute (uniform-grid path): the command buffer it encodes (the
\* buffers the four dispatches read and write, the buffer copied into the
\* vertex buffer) and the State it leaves
GridCompute(st) ==
  LET bind == IF st.particle_bind_swap THEN ParticleBind2 ELSE ParticleBind1
      out == IF st.particle_bind_swap THEN st.particle_buffer_1 ELSE st.particle_buffer_2
  IN [st |-> [st EXCEPT !.particle_bind_swap = ~st.particle_bind_swap],
      cmd |-> [read |-> bind.read, write |-> bind.write, copy |-> out]]

\* The while loop of State::step: one compute per PHYS_DT accumulated
RECURSIVE GridLoop(_, _)
GridLoop(st, cmd_bufs) ==
  IF st.time_acc >= PHYS_DT
  THEN LET c == GridCompute(st)
       IN GridLoop([c.st EXCEPT !.time_acc = c.st.time_acc - PHYS_DT],
                   Append(cmd_bufs, c.cmd))
  ELSE [st |-> st, cmd_bufs |-> cmd_bufs]

\* The device runs one command buffer: compute pass number pass reads
\* cmd.read and writes cmd.write, then cmd.copy is copied to the vertex buffer
RunCommand(mem, cmd, pass) ==
  LET written == [mem EXCEPT ![cmd.write] = [pass |-> pass, from |-> mem[cmd.read].pass]]
  IN [written EXCEPT !["V"] = written[cmd.copy]]

\* queue.submit(cmd_bufs): the command buffers run in order; done passes ran before
RECURSIVE Submit(_, _, _)
Submit(mem, cmd_bufs, done) ==
  IF cmd_bufs = <<>> THEN mem
  ELSE Submit(RunCommand(mem, Head(cmd_bufs), done + 1), Tail(cmd_bufs), done + 1)

\* The command buffers of one frame as the history keeps them
Logged(cmd_bufs, frame) ==
  [n \in 1 .. Len(cmd_bufs) |->
     [read |-> cmd_bufs[n].read, write |-> cmd_bufs[n].write,
      copy |-> cmd_bufs[n].copy, frame |-> frame]]

\* What one frame did, in order: n physics steps named step, then the render
FrameEvents(n, step) == [k \in 1 .. n + 1 |-> IF k <= n THEN step ELSE "render"]

\* The while loop of main in the macroquad binaries: the accumulator and the
\* number of physics steps after steps of them ran
RECURSIVE MqLoop(_, _)
MqLoop(acc, steps) ==
  IF acc >= SIM_TIMESTEP THEN MqLoop(acc - SIM_TIMESTEP, steps + 1)
  ELSE [acc |-> acc, steps |-> steps]

\* main of a macroquad binary before its loop: acc = 0.0
MqMainNew(path) == [path |-> path, acc |-> 0, frame |-> 0, events |-> <<>>]

\* The number of frames of one run
MaxFrames == 3

\* Frame durations: none, half a physics step, one, three, more than MAX_ACC
Durs == {0, PHYS_DT \div 2, PHYS_DT, 3 * PHYS_DT, MAX_ACC + PHYS_DT}

\* Areas of effect of the GPU runs, in 1 / Unit: 30 (wg binary), 50 (default),
\* 125, 400 and 600
GpuAoes == {30 * Unit, 50 * Unit, 125 * Unit, 400 * Unit, 600 * Unit}

InitGpu ==
  /\ NewWorld(SimConfig("mq", 1, 1, Unit, FALSE), Mesh(<<<<0>>>>),
              [c \in {0} |-> [p \in {0} |-> Vec2(0, 0)]])
  /\ kin = NoCall
  /\ kout = NoResult
  /\ QtAtRest
  /\ CtorAtRest
  /\ \/ \E path \in {"grid", "dense"}, aoe \in GpuAoes :
          /\ gparams = IF path = "grid" THEN GpuParamsNew(1, 2, aoe, Unit \div 10)
                       ELSE DenseParams(1, 2, aoe, Unit \div 10)
          /\ gparticles \in [1 .. gparams.num_particles -> GpuParticleNew(gparams.bound)]
          /\ gstate = GpuStateNew(path)
     \/ \E path \in {"bin/mq", "main"} :
          /\ gparams = <<>>
          /\ gparticles = <<>>
          /\ gstate = MqMainNew(path)
  /\ gmem = GpuMemNew
  /\ glog = <<>>
  /\ gridq = <<>>
  /\ bin = <<>>
  /\ bpc = <<>>

\* State::step (uniform-grid path): dur has passed since the last frame
GridStep ==
  /\ gstate /= <<>>
  /\ gstate.path = "grid"
  /\ gstate.frame < MaxFrames
  /\ \E dur \in Durs :
       LET acc == IF gstate.time_acc + dur < MAX_ACC THEN gstate.time_acc + dur ELSE MAX_ACC
           l == GridLoop([gstate EXCEPT !.time_acc = acc], <<>>)
       IN /\ gstate' = [l.st EXCEPT !.frame = gstate.frame + 1,
                                    !.events = FrameEvents(Len(l.cmd_bufs), "compute")]
          /\ gmem' = Submit(gmem, l.cmd_bufs, Len(glog))
          /\ glog' = glog \o Logged(l.cmd_bufs, gstate.frame + 1)
  /\ UNCHANGED <<worldVars, kernelVars, qtVars, ctorVars, gparams, gparticles, gridq, bin, bpc>>

\* State::step (dense path): compute encodes one pass, submits it and waits,
\* then exchanges the two buffer fields and flips the swap flag
DenseStep ==
  /\ gstate /= <<>>
  /\ gstate.path = "dense"
  /\ gstate.frame < MaxFrames
  /\ LET bind == IF gstate.particle_bind_swap THEN ParticleBind2 ELSE ParticleBind1
         cmd == [read |-> bind.read, write |-> bind.write, copy |-> gstate.particle_buffer_2]
     IN /\ gmem' = Submit(gmem, <<cmd>>, Len(glog))
        /\ glog' = glog \o Logged(<<cmd>>, gstate.frame + 1)
        /\ gstate' = [gstate EXCEPT !.particle_buffer_1 = gstate.particle_buffer_2,
                                    !.particle_buffer_2 = gstate.particle_buffer_1,
                                    !.particle_bind_swap = ~gstate.particle_bind_swap,
                                    !.frame = gstate.frame + 1,
                                    !.events = FrameEvents(1, "compute")]
  /\ UNCHANGED <<worldVars, kernelVars, qtVars, ctorVars, gparams, gparticles, gridq, bin, bpc>>

\* One pass of the loop of main in bin/mq.rs and in main.rs: frame_time has
\* passed since the last frame
MqFrame ==
  /\ gstate /= <<>>
  /\ gstate.path \in {"bin/mq", "main"}
  /\ gstate.frame < MaxFrames
  /\ \E frame_time \in Durs :
       LET cap == SIM_TIMESTEP * MAX_ACCUMULATOR
           acc == IF gstate.acc + frame_time < cap THEN gstate.acc + frame_time ELSE cap
           l == MqLoop(acc, 0)
       IN gstate' = [gstate EXCEPT !.acc = l.acc, !.frame = gstate.frame + 1,
                                   !.events = FrameEvents(l.steps, "physics_step")]
  /\ UNCHANGED <<worldVars, kernelVars, qtVars, ctorVars,
                 gparams, gparticles, gmem, glog, gridq, bin, bpc>>

NextGpu ==
  \/ GridStep
  \/ DenseStep
  \/ MqFrame

SpecGpu == InitGpu /\ [][NextGpu]_vars

----------------------------------------------------------------------------
\* Uniform grid of the GPU path. The binning and force passes are the compute
\* shader (shaders/compute.wgsl), whose text is not among the sources; they
\* are taken from section 4.2 of the specification.

\* floor(coord / bin)
CellCoord(params, coord) == (coord * params.bin_size.d) \div params.bin_size.n

\* Count pass: c = floor(y / bin) * grid_w + floor(x / bin)
CellIndex(params, pos) ==
  CellCoord(params, pos.y) * params.grid_w + CellCoord(params, pos.x)

\* G = grid_w * grid_w, the length of counts
NumBins(params) == params.grid_w * params.grid_w

\* The bin a particle is counted and scattered into. An index past the end of
\* counts is an out-of-bounds access of a storage buffer, which the device may
\* drop (bin G, no bin) or clamp to the last element
BinOf(params, pos, oob) ==
  LET c == CellIndex(params, pos)
  IN IF c < NumBins(params) THEN c
     ELSE IF oob = "clamp" THEN NumBins(params) - 1
     ELSE NumBins(params)

\* bins[offsets[cell] .. offsets[cell + 1]): the particles of one cell, from
\* particle j on, in index order
RECURSIVE BinMembers(_, _, _, _, _)
BinMembers(params, ps, oob, cell, j) ==
  IF j > Len(ps) THEN <<>>
  ELSE (IF BinOf(params, ps[j].pos, oob) = cell THEN <<j>> ELSE <<>>)
       \o BinMembers(params, ps, oob, cell, j + 1)

\* The particles enumerated over a sequence of cells
RECURSIVE CellsMembers(_, _, _, _)
CellsMembers(params, ps, oob, cells) ==
  IF cells = <<>> THEN <<>>
  ELSE BinMembers(params, ps, oob, Head(cells), 1)
       \o CellsMembers(params, ps, oob, Tail(cells))

\* Query: the cells (cx - 1 .. cx + 1) x (cy - 1 .. cy + 1) around the cell
\* of pos, clamped to the grid, row by row
GridBlock(params, pos) ==
  LET cx == CellCoord(params, pos.x)
      cy == CellCoord(params, pos.y)
      x0 == IF cx - 1 < 0 THEN 0 ELSE cx - 1
      x1 == IF cx + 1 > params.grid_w - 1 THEN params.grid_w - 1 ELSE cx + 1
      y0 == IF cy - 1 < 0 THEN 0 ELSE cy - 1
      y1 == IF cy + 1 > params.grid_w - 1 THEN params.grid_w - 1 ELSE cy + 1
      nx == x1 - x0 + 1
      ny == y1 - y0 + 1
  IN IF nx <= 0 \/ ny <= 0 THEN <<>>
     ELSE [k \in 1 .. nx * ny |->
             (y0 + ((k - 1) \div nx)) * params.grid_w + (x0 + ((k - 1) % nx))]

\* The particles the force pass of particle n enumerates
GridQuery(params, ps, oob, n) ==
  CellsMembers(params, ps, oob, GridBlock(params, ps[n].pos))

\* The number of particles of a grid run
GridParticles == 3

\* Positions in the closed B: beside the right wall and on it, beside the
\* upper wall and on it, the origin, a cell corner and the world's middle
GridPoints ==
  {Vec2(0, 0), Vec2(100 * Unit, 100 * Unit), Vec2(500 * Unit, 520 * Unit),
   Vec2(990 * Unit, 50 * Unit), Vec2(GpuBound * Unit, 50 * Unit),
   Vec2(50 * Unit, 990 * Unit), Vec2(50 * Unit, GpuBound * Unit),
   Vec2(960 * Unit, 140 * Unit)}

GridAoes == {30 * Unit, 50 * Unit, 600 * Unit}

InitGrid ==
  /\ NewWorld(SimConfig("mq", 1, 1, Unit, FALSE), Mesh(<<<<0>>>>),
              [c \in {0} |-> [p \in {0} |-> Vec2(0, 0)]])
  /\ kin = NoCall
  /\ kout = NoResult
  /\ QtAtRest
  /\ CtorAtRest
  /\ \E aoe \in GridAoes : gparams = GpuParamsNew(1, GridParticles, aoe, Unit \div 10)
  /\ gparticles \in [1 .. GridParticles -> {Particle(pos, ZERO) : pos \in GridPoints}]
  /\ gstate = <<>>
  /\ gmem = <<>>
  /\ glog = <<>>
  /\ gridq = <<>>
  /\ bin = <<>>
  /\ bpc = <<>>

\* The force pass of particle n over the grid built from gparticles
GridQueryCall ==
  /\ gridq = <<>>
  /\ \E n \in 1 .. Len(gparticles), oob \in {"drop", "clamp"} :
       gridq' = <<[n |-> n, oob |-> oob, seen |-> GridQuery(gparams, gparticles, oob, n)]>>
  /\ UNCHANGED <<worldVars, kernelVars, qtVars, ctorVars, gparams, gparticles, gstate, gmem, glog, bin, bpc>>

NextGrid == GridQueryCall

SpecGrid == InitGrid /\ [][NextGrid]_vars

-----------------------------------------------------------------------------
\* The bin buffers over the ticks of the uniform-grid path. The host side is
\* State::new and State::compute of src/wgpu/src/app.rs; the count, offsets
\* and build passes are the three passes of section 4.2, one invocation per
\* particle in the count and build passes, in any order.

MaxTicks == 2

BinParticles == 3

\* Positions strictly inside B, two of them in one cell
BinPoints == {Vec2(100 * Unit, 100 * Unit), Vec2(120 * Unit, 140 * Unit),
              Vec2(700 * Unit, 800 * Unit)}

BinAoes == {300 * Unit}

\* vec![0f32; n] as the initial contents of a buffer
Zeroed(n) == [k \in 0 .. n - 1 |-> 0]

\* State::new: the five bin buffers are created zeroed
BinBuffersNew(params) ==
  [counts |-> Zeroed(NumBins(params)),
   ixs |-> Zeroed(params.num_particles),
   offsets |-> Zeroed(NumBins(params) + 1),
   current |-> Zeroed(NumBins(params)),
   bins |-> Zeroed(params.num_particles)]

\* The sum of counts[0 .. c - 1]
RECURSIVE PrefixSum(_, _)
PrefixSum(counts, c) == IF c = 0 THEN 0 ELSE PrefixSum(counts, c - 1) + counts[c - 1]

InitBins ==
  /\ NewWorld(SimConfig("mq", 1, 1, Unit, FALSE), Mesh(<<<<0>>>>),
              [c \in {0} |-> [p \in {0} |-> Vec2(0, 0)]])
  /\ kin = NoCall
  /\ kout = NoResult
  /\ QtAtRest
  /\ CtorAtRest
  /\ \E aoe \in BinAoes : gparams = GpuParamsNew(1, BinParticles, aoe, Unit \div 10)
  /\ gparticles \in [1 .. BinParticles -> {Particle(pos, ZERO) : pos \in BinPoints}]
  /\ gstate = <<>>
  /\ gmem = <<>>
  /\ glog = <<>>
  /\ gridq = <<>>
  /\ bin = BinBuffersNew(gparams)
  /\ bpc = [tick |-> 0, pass |-> "idle", done |-> {}]

\* State::compute up to the first dispatch: the encoder clears the counts
\* buffer, and no other bin buffer, then the passes are dispatched in the
\* order count, offsets, build, force
ComputeBegin ==
  /\ bpc /= <<>>
  /\ bpc.pass = "idle"
  /\ bpc.tick < MaxTicks
  /\ bin' = [bin EXCEPT !.counts = Zeroed(NumBins(gparams))]
  /\ bpc' = [tick |-> bpc.tick + 1, pass |-> "count", done |-> {}]
  /\ UNCHANGED <<worldVars, kernelVars, qtVars, ctorVars,
                 gparams, gparticles, gstate, gmem, glog, gridq>>

\* The pass after the last invocation of a pass of one invocation per particle
AfterAll(done, pass, next) ==
  IF done = 1 .. Len(gparticles) THEN [bpc EXCEPT !.pass = next, !.done = {}]
  ELSE [bpc EXCEPT !.done = done]

\* Count pass, invocation of particle n: atomically increment counts[c] and
\* record c as the particle's cell index
CountInvocation ==
  /\ bpc /= <<>>
  /\ bpc.pass = "count"
  /\ \E n \in (1 .. Len(gparticles)) \ bpc.done :
       LET c == BinOf(gparams, gparticles[n].pos, "drop") IN
       /\ bin' = [bin EXCEPT !.counts[c] = @ + 1, !.ixs[n - 1] = c]
       /\ bpc' = AfterAll(bpc.done \cup {n}, "count", "offsets")
  /\ UNCHANGED <<worldVars, kernelVars, qtVars, ctorVars,
                 gparams, gparticles, gstate, gmem, glog, gridq>>

\* Offsets pass, one invocation: the serial exclusive prefix sum of counts
OffsetsPass ==
  /\ bpc /= <<>>
  /\ bpc.pass = "offsets"
  /\ bin' = [bin EXCEPT !.offsets = [c \in 0 .. NumBins(gparams) |-> PrefixSum(bin.counts, c)]]
  /\ bpc' = [bpc EXCEPT !.pass = "build", !.done = {}]
  /\ UNCHANGED <<worldVars, kernelVars, qtVars, ctorVars,
                 gparams, gparticles, gstate, gmem, glog, gridq>>

\* Build (scatter) pass, invocation of particle n:
\* bins[offsets[c] + atomicAdd(current[c], 1)] = n. A store past the end of
\* bins is an out-of-bounds access of a storage buffer, which the device may
\* drop or clamp to the last element
BuildInvocation ==
  /\ bpc /= <<>>
  /\ bpc.pass = "build"
  /\ \E n \in (1 .. Len(gparticles)) \ bpc.done, oob \in {"drop", "clamp"} :
       LET c == bin.ixs[n - 1]
           slot == bin.offsets[c] + bin.current[c]
           last == Len(gparticles) - 1
           stored == IF slot <= last THEN [bin.bins EXCEPT ![slot] = n - 1]
                     ELSE IF oob = "clamp" THEN [bin.bins EXCEPT ![last] = n - 1]
                     ELSE bin.bins
       IN /\ bin' = [bin EXCEPT !.current[c] = @ + 1, !.bins = stored]
          /\ bpc' = AfterAll(bpc.done \cup {n}, "build", "force")
  /\ UNCHANGED <<worldVars, kernelVars, qtVars, ctorVars,
                 gparams, gparticles, gstate, gmem, glog, gridq>>

\* Force pass: every particle is moved to a position in B; the tick is over
ForcePass ==
  /\ bpc /= <<>>
  /\ bpc.pass = "force"
  /\ gparticles' \in [1 .. BinParticles -> {Particle(pos, ZERO) : pos \in BinPoints}]
  /\ bpc' = [bpc EXCEPT !.pass = "idle"]
  /\ UNCHANGED <<worldVars, kernelVars, qtVars, ctorVars,
                 gparams, gstate, gmem, glog, gridq, bin>>

NextBins ==
  \/ ComputeBegin
  \/ CountInvocation
  \/ OffsetsPass
  \/ BuildInvocation
  \/ ForcePass

SpecBins == InitBins /\ [][NextBins]_vars

----------------------------------------------------------------------------
\* Construction, export and import of the gravity mesh (mq World). JSON text
\* is kept as its tokens: an array of arrays of numbers, each number a sign,
\* the digits before the point as a value, and the digits after the point

\* The most digits after the point a number is written with
MaxDigits == 3

RECURSIVE Pow10(_)
Pow10(n) == IF n = 0 THEN 1 ELSE 10 * Pow10(n - 1)

\* a / b rounded to the nearest whole number, for a >= 0 and b > 0
RoundDiv(a, b) == (2 * a + b) \div (2 * b)

\* The value of a decimal number of a JSON text as the nearest f32
ParseF32(tok) ==
  LET n == Len(tok.frac)
      RECURSIVE Digits(_)
      Digits(k) == IF k = 0 THEN tok.int ELSE 10 * Digits(k - 1) + tok.frac[k]
      a == RoundDiv(Digits(n) * Unit, Pow10(n))
  IN IF tok.neg THEN -a ELSE a

\* serde_json writes an f32 with the fewest digits that read back as the
\* same f32, and at least one digit after the point
FormatF32(v) ==
  LET a == Abs(v)
      Reads(n) == RoundDiv(RoundDiv(a * Pow10(n), Unit) * Unit, Pow10(n)) = a
      n == CHOOSE k \in 1 .. MaxDigits :
             Reads(k) /\ \A j \in 1 .. (k - 1) : ~Reads(j)
      num == RoundDiv(a * Pow10(n), Unit)
  IN [neg |-> v < 0, int |-> num \div Pow10(n),
      frac |-> [k \in 1 .. n |-> (num \div Pow10(n - k)) % 10]]

\* serde_json::from_str::<Vec<Vec<f32>>>(mesh)
ParseMesh(json) ==
  [c1 \in 0 .. (Len(json) - 1) |->
     [c2 \in 0 .. (Len(json[c1 + 1]) - 1) |-> ParseF32(json[c1 + 1][c2 + 1])]]

\* The length of a Vec kept as a function on 0 .. len - 1
VecLen(v) == Cardinality(DOMAIN v)

\* World::export_gravity_mesh_json of a World whose mesh is mesh
ExportGravityMeshJson(mesh) ==
  [r \in 1 .. VecLen(mesh) |->
     [k \in 1 .. VecLen(mesh[r - 1]) |-> FormatF32(mesh[r - 1][k - 1])]]

\* SimConfig::gpu_params
gpu_params(cf) == [num_cultures |-> cf.num_cultures, culture_size |-> cf.culture_size,
                   aoe2 |-> cf.aoe2]

\* GpuCompute::new: the particle and force buffers hold num_particles entries;
\* forces is history, what the last run returned
GpuComputeNew(params) ==
  [num_particles |-> params.num_cultures * params.culture_size, forces |-> <<>>]

\* World::new that keeps the configured num_cultures when a mesh is supplied
WorldNewKeepsCount(cf, json, drawn, places) ==
  LET mesh == IF json = <<>> THEN drawn ELSE ParseMesh(json[1])
      cs == 0 .. (cf.num_cultures - 1)
      ps == 0 .. (cf.culture_size - 1)
  IN [conf |-> cf, gravity_mesh |-> mesh,
      cultures |-> [c \in cs |-> [p \in ps |-> Particle(places[c][p], ZERO)]],
      force_tensor |-> [c \in cs |-> [p \in ps |-> ZERO]],
      cursor_force_tensor |-> [c \in cs |-> [p \in ps |-> ZERO]],
      i |-> 0,
      gpu |-> IF cf.gpu THEN <<GpuComputeNew(gpu_params(cf))>> ELSE <<>>]

\* World::new that takes the GPU parameters from the configuration as it was
\* handed in, before mesh_json sets the number of cultures
WorldNewGpuParamsFirst(cf, json, drawn, places) ==
  LET mesh == IF json = <<>> THEN drawn ELSE ParseMesh(json[1])
      nc == IF json = <<>> THEN cf.num_cultures ELSE Len(json[1])
      cs == 0 .. (nc - 1)
      ps == 0 .. (cf.culture_size - 1)
  IN [conf |-> [cf EXCEPT !.num_cultures = nc], gravity_mesh |-> mesh,
      cultures |-> [c \in cs |-> [p \in ps |-> Particle(places[c][p], ZERO)]],
      force_tensor |-> [c \in cs |-> [p \in ps |-> ZERO]],
      cursor_force_tensor |-> [c \in cs |-> [p \in ps |-> ZERO]],
      i |-> 0,
      gpu |-> IF cf.gpu THEN <<GpuComputeNew(gpu_params(cf))>> ELSE <<>>]

\* World::new(conf) of the mq World: json is conf.mesh_json (<<>> for None),
\* drawn the mesh random_gravity_mesh would give, places the positions
\* Particle::new draws
WorldNew(cf, json, drawn, places) ==
  LET mesh == IF json = <<>> THEN drawn ELSE ParseMesh(json[1])
      nc == IF json = <<>> THEN cf.num_cultures ELSE Len(json[1])
      cs == 0 .. (nc - 1)
      ps == 0 .. (cf.culture_size - 1)
      frozen == [cf EXCEPT !.num_cultures = nc]
  IN [conf |-> frozen, gravity_mesh |-> mesh,
      cultures |-> [c \in cs |-> [p \in ps |-> Particle(places[c][p], ZERO)]],
      force_tensor |-> [c \in cs |-> [p \in ps |-> ZERO]],
      cursor_force_tensor |-> [c \in cs |-> [p \in ps |-> ZERO]],
      i |-> 0,
      gpu |-> IF frozen.gpu THEN <<GpuComputeNew(gpu_params(frozen))>> ELSE <<>>]

\* A number of a JSON text
Tok(neg, int, frac) == [neg |-> neg, int |-> int, frac |-> frac]

\* Texts handed in as mesh_json: [[0.5]], [[0.0,-1.0],[-1.0,0.0]], the ragged
\* [[0.5],[1.0,-0.25]] and [[0.5,1.0]], and the empty []
JsonInputs ==
  {<<<<Tok(FALSE, 0, <<5>>)>>>>,
   <<<<Tok(FALSE, 0, <<0>>), Tok(TRUE, 1, <<0>>)>>,
     <<Tok(TRUE, 1, <<0>>), Tok(FALSE, 0, <<0>>)>>>>,
   <<<<Tok(FALSE, 0, <<5>>)>>, <<Tok(FALSE, 1, <<0>>), Tok(TRUE, 0, <<2, 5>>)>>>>,
   <<<<Tok(FALSE, 0, <<5>>), Tok(FALSE, 1, <<0>>)>>>>,
   <<>>}

\* The configurations handed to World::new: no cultures, empty cultures and a
\* zero area of effect among them
CtorConfigs ==
  {[SimConfig("mq", nc, cs, Unit \div 2, FALSE) EXCEPT !.aoe2 = a2, !.gpu = g] :
     nc \in {0, 1, 2}, cs \in {0, 1, 2}, a2 \in {0, (Aoe * Unit) * (Aoe * Unit)},
     g \in BOOLEAN}

\* The configurations a mesh is imported under
ImportConfigs ==
  {SimConfig("mq", nc, 1, Unit \div 2, FALSE) : nc \in {0, 1, 3}}

\* What random_gravity_mesh(nc) may draw
DrawnMeshes(nc) == IF nc = 0 THEN {<<>>} ELSE Meshes(nc)

\* The positions Particle::new draws in the construction harness
CtorPlaces ==
  [c \in 0 .. 2 |-> [p \in 0 .. 2 |-> Vec2((400 + 10 * c) * Unit, (400 + 10 * p) * Unit)]]

InitCtor ==
  /\ \E cf \in CtorConfigs, json \in {<<>>} \cup {<<j>> : j \in JsonInputs} :
       \E drawn \in DrawnMeshes(cf.num_cultures) :
         LET w == WorldNew(cf, json, drawn, CtorPlaces) IN
         /\ conf = w.conf
         /\ gravity_mesh = w.gravity_mesh
         /\ cultures = w.cultures
         /\ force_tensor = w.force_tensor
         /\ cursor_force_tensor = w.cursor_force_tensor
         /\ i = w.i
         /\ gpu = w.gpu
         /\ mesh_json = json
  /\ app = <<>>
  /\ qt = [c \in DOMAIN cultures |-> <<>>]
  /\ pc = "idle"
  /\ tau = 0
  /\ button = "none"
  /\ prev = cultures
  /\ init = cultures
  /\ row_i = [c \in DOMAIN cultures |-> -1]
  /\ held = FALSE
  /\ kin = NoCall
  /\ kout = NoResult
  /\ QtAtRest
  /\ GpuAtRest
  /\ exported = <<>>
  /\ npc = "built"

\* world.export_gravity_mesh_json()
ExportCall ==
  /\ npc \in {"built", "imported"}
  /\ pc = "idle"
  /\ exported' = Append(exported, [json |-> ExportGravityMeshJson(gravity_mesh),
                                   mesh |-> gravity_mesh])
  /\ npc' = IF npc = "built" THEN "exported" ELSE "reexported"
  /\ UNCHANGED <<worldVars, kernelVars, qtVars, gpuVars, mesh_json, gpu, app>>

\* World::new(conf) with conf.mesh_json = Some(the text exported)
ImportCall ==
  /\ npc = "exported"
  /\ pc = "idle"
  /\ \E cf \in ImportConfigs :
       LET w == WorldNew(cf, <<exported[1].json>>, <<>>, CtorPlaces) IN
       /\ conf' = w.conf
       /\ gravity_mesh' = w.gravity_mesh
       /\ cultures' = w.cultures
       /\ force_tensor' = w.force_tensor
       /\ cursor_force_tensor' = w.cursor_force_tensor
       /\ i' = w.i
       /\ qt' = [c \in DOMAIN w.cultures |-> <<>>]
       /\ prev' = w.cultures
       /\ init' = w.cultures
       /\ row_i' = [c \in DOMAIN w.cultures |-> -1]
       /\ gpu' = w.gpu
  /\ mesh_json' = <<exported[1].json>>
  /\ npc' = "imported"
  /\ UNCHANGED <<pc, tau, button, held, kernelVars, qtVars, gpuVars, exported, app>>

\* What the force shader may leave in a force buffer of n entries: zeros, or
\* a force that tells the entries apart
GpuForces(n) == {[k \in 1 .. n |-> ZERO], [k \in 1 .. n |-> Vec2(k * Unit, -Unit)]}

\* cultures.iter().flat_map(|c| c.particles.iter().map(|p| p.pos.to_array())):
\* the number of positions handed to GpuCompute::run
RECURSIVE FlatLen(_, _)
FlatLen(cs, n) ==
  IF n = 0 THEN 0 ELSE FlatLen(cs, n - 1) + VecLen(cs[n - 1])

\* World::compute_force_naive_gpu with GpuCompute::run, the branch of step
\* taken when World.gpu is Some: run asserts the number of positions, returns
\* the force buffer, and entry k of it is written to the k-th element of the
\* flattened force tensor
ComputeForceNaiveGpu ==
  /\ pc = "rebuild"
  /\ gpu /= <<>>
  /\ IF FlatLen(cultures, VecLen(cultures)) = gpu[1].num_particles
     THEN \E forces \in GpuForces(gpu[1].num_particles) :
            /\ gpu' = <<[gpu[1] EXCEPT !.forces = forces]>>
            /\ force_tensor' =
                 [c \in DOMAIN force_tensor |->
                    [p \in DOMAIN force_tensor[c] |->
                       forces[FlatLen(force_tensor, c) + p + 1]]]
            /\ row_i' = [c \in DOMAIN row_i |-> i]
            /\ pc' = "cursor"
     ELSE /\ pc' = "panicked"
          /\ UNCHANGED <<gpu, force_tensor, row_i>>
  /\ UNCHANGED <<conf, cultures, qt, gravity_mesh, cursor_force_tensor,
                 i, tau, button, prev, init, held, kernelVars, qtVars, gpuVars,
                 mesh_json, exported, npc, app>>

NextCtor ==
  \/ ExportCall
  \/ ImportCall
  \/ StepCall
  \/ Rebuild
  \/ ComputeForce
  \/ ComputeForceNaiveGpu
  \/ ComputeCursorForce
  \/ ApplyForceTensor

SpecCtor == InitCtor /\ [][NextCtor]_vars

-----------------------------------------------------------------------------
\* The macroquad App: the UI Config beside the running World, the sliders
\* that change the Config, and reset_world (key R, button Run).

MaxResets == 2

\* Config::freeze that takes the whole SimConfig from its defaults
FreezeKeepsDefaults(uc) == SimConfig("mq", 2, 2, Unit \div 2, TRUE)

\* Config::freeze: the SimConfig of the Config at this moment; what Config
\* does not hold comes from SimConfig::default (is_interactive: true)
Freeze(uc) ==
  [SimConfig("mq", uc.num_cultures, uc.culture_size, Unit \div 2, TRUE)
     EXCEPT !.aoe2 = uc.aoe * uc.aoe]

\* What the sliders of the harness are set to
UiCultures == {1, 2}
UiSizes == {1, 2}
UiAoes == {5 * Unit, Aoe * Unit}

\* Config::default, with the numbers of the harness
ConfigDefault == [num_cultures |-> 2, culture_size |-> 2, aoe |-> Aoe * Unit]

\* App::new
InitApp ==
  /\ app = [conf |-> ConfigDefault, resets |-> 0]
  /\ \E drawn \in DrawnMeshes(ConfigDefault.num_cultures) :
       LET w == WorldNew(Freeze(ConfigDefault), <<>>, drawn, CtorPlaces) IN
       /\ conf = w.conf
       /\ gravity_mesh = w.gravity_mesh
       /\ cultures = w.cultures
       /\ force_tensor = w.force_tensor
       /\ cursor_force_tensor = w.cursor_force_tensor
       /\ i = w.i
       /\ gpu = w.gpu
  /\ mesh_json = <<>>
  /\ qt = [c \in DOMAIN cultures |-> <<>>]
  /\ pc = "idle"
  /\ tau = 0
  /\ button = "none"
  /\ prev = cultures
  /\ init = cultures
  /\ row_i = [c \in DOMAIN cultures |-> -1]
  /\ held = FALSE
  /\ kin = NoCall
  /\ kout = NoResult
  /\ QtAtRest
  /\ GpuAtRest
  /\ exported = <<>>
  /\ npc = "built"

\* App::render, a slider of the Simulation Config window is moved
SliderCall ==
  /\ app /= <<>>
  /\ pc = "idle"
  /\ \E nc \in UiCultures, cs \in UiSizes, aoe \in UiAoes :
       app' = [app EXCEPT !.conf = [num_cultures |-> nc, culture_size |-> cs, aoe |-> aoe]]
  /\ UNCHANGED <<worldVars, kernelVars, qtVars, gpuVars, mesh_json, exported, npc, gpu>>

\* App::reset_world, from handle_input (key R) or the button Run
ResetWorld ==
  /\ app /= <<>>
  /\ pc = "idle"
  /\ app.resets < MaxResets
  /\ \E drawn \in DrawnMeshes(app.conf.num_cultures) :
       LET w == WorldNew(Freeze(app.conf), <<>>, drawn, CtorPlaces) IN
       /\ conf' = w.conf
       /\ gravity_mesh' = w.gravity_mesh
       /\ cultures' = w.cultures
       /\ force_tensor' = w.force_tensor
       /\ cursor_force_tensor' = w.cursor_force_tensor
       /\ i' = w.i
       /\ gpu' = w.gpu
       /\ qt' = [c \in DOMAIN w.cultures |-> <<>>]
       /\ prev' = w.cultures
       /\ init' = w.cultures
       /\ row_i' = [c \in DOMAIN w.cultures |-> -1]
  /\ app' = [app EXCEPT !.resets = @ + 1]
  /\ UNCHANGED <<pc, tau, button, held, kernelVars, qtVars, gpuVars,
                 mesh_json, exported, npc>>

NextApp ==
  \/ SliderCall
  \/ ResetWorld
  \/ StepCall
  \/ Rebuild
  \/ ComputeForce
  \/ ComputeCursorForce
  \/ ApplyForceTensor

SpecApp == InitApp /\ [][NextApp]_vars

----------------------------------------------------------------------------
\* Vocabulary of the properties

\* v lies in the closed rectangle B = [0, W] x [0, H]
InB(v) == 0 <= v.x /\ v.x <= Bound.x /\ 0 <= v.y /\ v.y <= Bound.y

\* A step has just returned
StepDone == pc = "idle" /\ i > 0

ZeroMesh == \A c1 \in Cs, c2 \in Cs : gravity_mesh[c1][c2] = 0

\* The sum of a finite family of vectors, taken in no particular order
RECURSIVE SumVecs(_)
SumVecs(f) ==
  IF DOMAIN f = {} THEN ZERO
  ELSE LET k == CHOOSE k \in DOMAIN f : TRUE
       IN VAdd(f[k], SumVecs([j \in (DOMAIN f) \ {k} |-> f[j]]))

\* (1/C) * sum over source cultures j and particles s of culture j of
\* kernel(p_k.pos, s.pos, mass 1, g[c1][j]), the particles being parts
ExpectedF(parts, c1, k) ==
  VDivN(SumVecs([pr \in Cs \X Ps |->
                   Force(parts[c1][k].pos, WeightedPoint(parts[pr[1]][pr[2]].pos, 1),
                         gravity_mesh[c1][pr[1]], conf.aoe2)]), C)

\* Row c of the force tensor is the averaged kernel sum over parts
RowIsFrom(parts, c) == \A k \in Ps : force_tensor[c][k] = ExpectedF(parts, c, k)

----------------------------------------------------------------------------
\* C1: at the end of every step every particle position lies in the closed
\* rectangle B (positions start in B; any tau, forces and velocities).
C1_PositionsStayInB ==
  pc = "idle" => \A c \in Cs, p \in Ps : InB(cultures[c][p].pos)

\* C6: a particle that entered a step exactly on a wall, inside B, with its
\* velocity pointing out of B, leaves the step with the velocity on that axis
\* not pointing out of B (inward, or zero when the force cancelled it) and with
\* its position in the closed rectangle B.
C6_WallReflectsInward ==
  StepDone =>
    \A c \in Cs, p \in Ps :
      LET a == prev[c][p]
          b == cultures[c][p]
      IN InB(a.pos) =>
           /\ (a.pos.x = 0 /\ a.vel.x < 0) => (b.vel.x >= 0 /\ InB(b.pos))
           /\ (a.pos.x = Bound.x /\ a.vel.x > 0) => (b.vel.x <= 0 /\ InB(b.pos))
           /\ (a.pos.y = 0 /\ a.vel.y < 0) => (b.vel.y >= 0 /\ InB(b.pos))
           /\ (a.pos.y = Bound.y /\ a.vel.y > 0) => (b.vel.y <= 0 /\ InB(b.pos))

\* C7: with C = 1, S = 1, damping = 1 and no button held, a particle that
\* enters a step at (0, y), y in [0, H], with velocity (-v, 0), v >= 0, leaves
\* it with velocity (v, 0) at (v * tau, y); for v = 100, y = 400, tau = 1 that
\* is position (100, 400) and velocity (100, 0).
C7_WallClamp ==
  (StepDone /\ C = 1 /\ S = 1 /\ conf.damping = Unit /\ button = "none") =>
    LET a == prev[0][0]
        b == cultures[0][0]
    IN /\ (a.pos.x = 0 /\ a.vel.x <= 0 /\ a.vel.y = 0 /\ 0 <= a.pos.y /\ a.pos.y <= Bound.y)
            => (b.vel = Vec2(-a.vel.x, 0) /\ b.pos = Vec2(FMul(-a.vel.x, tau), a.pos.y))
       /\ (a = Particle(Vec2(0, 400 * Unit), Vec2(-100 * Unit, 0)) /\ tau = Unit)
            => b = Particle(Vec2(100 * Unit, 400 * Unit), Vec2(100 * Unit, 0))

\* C7 witness: the step of the concrete scenario has run
C7_Witness ==
  /\ StepDone /\ C = 1 /\ S = 1 /\ conf.damping = Unit /\ button = "none" /\ tau = Unit
  /\ prev[0][0] = Particle(Vec2(0, 400 * Unit), Vec2(-100 * Unit, 0))
  /\ cultures[0][0] = Particle(Vec2(100 * Unit, 400 * Unit), Vec2(100 * Unit, 0))

\* C9: a world with an all-zero mesh and damping = 1 in which no step has read
\* a held button is a fixed point: after any number of steps every particle
\* has its initial position and velocity (walls included).
C9_ZeroMeshFixedPoint ==
  (pc = "idle" /\ ZeroMesh /\ conf.damping = Unit /\ ~held) => cultures = init

\* C9 witness: two steps of an interactive two-culture world with a particle
\* on the wall x = 0
C9_Witness ==
  /\ pc = "idle" /\ i >= 2 /\ ZeroMesh /\ conf.damping = Unit /\ ~held
  /\ conf.is_interactive /\ C = 2
  /\ \E c \in Cs, p \in Ps : init[c][p].pos.x = 0
  /\ cultures = init

\* The index of culture c holds exactly the positions parts[c], mass 1 each
IndexIsFrom(parts, c) == qt[c] = [k \in 1 .. S |-> WeightedPoint(parts[c][k - 1].pos, 1)]

\* The rows the force pass of the running step aggregates
RowsOfStep == IF conf.variant = "mq" THEN Cs ELSE {RollingRow}

----------------------------------------------------------------------------
PhaseOrder ==
  [][pc' /= pc => <<pc, pc'>> \in {<<"idle", "rebuild">>, <<"rebuild", "force">>,
                                    <<"force", "cursor">>, <<"cursor", "integrate">>,
                                    <<"integrate", "idle">>}]_vars

\* From the end of the rebuild to the end of the force pass no index is rebuilt
\* and no particle is written
ForcePassWritesNoIndex ==
  [][pc = "force" => (qt' = qt /\ cultures' = cultures)]_vars

\* Every index the force pass reads was built from the positions at step entry
IndexFromStepStart ==
  [](pc \in {"force", "cursor"} =>
       \A c \in Cs : IndexIsFrom(prev, c) /\ cultures[c] = prev[c])

TwoParticleRepel ==
  /\ StepDone /\ i = 1 /\ C = 2 /\ S = 1 /\ conf.damping = Unit
  /\ gravity_mesh = Mesh(<<<<0, -1>>, <<-1, 0>>>>)
  /\ button = "none" /\ tau = Unit
  /\ init[0][0].pos = Vec2(400 * Unit, 400 * Unit)
  /\ init[1][0].pos = Vec2(410 * Unit, 400 * Unit)

KernelD2 == DistanceSquared(kin.self_pos, KernelSample(kin))

\* The mass the called kernel weighs the sample with: _naive_force has none
KernelMass == IF kout.fn = "force" THEN kin.mass ELSE 1

\* u is coordinate a of the offset divided by its length d, in 1/Unit, rounded
\* toward zero
IsUnitCoord(u, a, d2) ==
  /\ Sign(u) \in {0, Sign(a)}
  /\ u * u * d2 <= a * a * Unit * Unit
  /\ a * a * Unit * Unit < (Abs(u) + 1) * (Abs(u) + 1) * d2

\* C5: the pairwise kernel returns zero when the squared distance d2 is 0 or
\* exceeds r2 (a sample at distance exactly r is inside); otherwise it returns
\* the unit direction from the particle to the sample times g times the mass,
\* which is non-zero when g is.
C5_Kernel ==
  kout /= NoResult =>
    /\ (KernelD2 = 0 \/ KernelD2 > kin.aoe2) => kout.f = ZERO
    /\ (KernelD2 > 0 /\ KernelD2 <= kin.aoe2) =>
         /\ \E ux, uy \in (-Unit) .. Unit :
              /\ IsUnitCoord(ux, kin.off.x, KernelD2)
              /\ IsUnitCoord(uy, kin.off.y, KernelD2)
              /\ kout.f = Vec2(FMul(ux, kin.g) * KernelMass, FMul(uy, kin.g) * KernelMass)
         /\ kin.g /= 0 => kout.f /= ZERO

\* C5 witness: Particle::force on a sample of mass 2 at distance exactly r,
\* offset (60, 80), g = 1: the force is (0.6, 0.8) * 2
C5_Witness ==
  /\ kout.fn = "force" /\ kin.off = Vec2(60 * Unit, 80 * Unit)
  /\ KernelD2 = kin.aoe2 /\ kin.mass = 2 /\ kin.g = Unit
  /\ kout.f = Vec2(2 * ((3 * Unit) \div 5), 2 * ((4 * Unit) \div 5))

\* The largest |g| of the mesh
MaxAbsG ==
  CHOOSE m \in {Abs(gravity_mesh[a][b]) : a, b \in Cs} :
    \A a, b \in Cs : Abs(gravity_mesh[a][b]) <= m

\* Sum of the magnitudes of the force tensor's entries
RECURSIVE SumLengths(_)
SumLengths(n) ==
  IF n = 0 THEN 0
  ELSE SumLengths(n - 1) + Length(force_tensor[(n - 1) \div S][(n - 1) % S])

\* A force pass has just run
AfterForcePass == pc = "cursor" \/ (pc = "idle" /\ \A c \in Cs : row_i[c] = -2)

\* C10 (as claimed): with at least two cultures and a non-zero mesh, after the
\* force pass the magnitudes |F[i][k]| sum to at most C * S * max|g|.
C10_ForceSumBound ==
  (AfterForcePass /\ C >= 2 /\ ~ZeroMesh) => SumLengths(C * S) <= C * S * MaxAbsG

\* C10 (amended): each |F[i][k]| is at most S * max|g| (the average over C
\* cultures of at most S unit pulls each), so the magnitudes sum to at most
\* C * S * S * max|g|.
C10_ForceSumBoundS2 ==
  (AfterForcePass /\ C >= 2 /\ ~ZeroMesh) =>
    /\ \A c \in Cs, p \in Ps : Length(force_tensor[c][p]) <= S * MaxAbsG
    /\ SumLengths(C * S) <= C * S * S * MaxAbsG

\* C10 witness: a force pass whose magnitudes sum to more than C * S * max|g|
C10_Witness ==
  /\ AfterForcePass /\ C >= 2 /\ ~ZeroMesh
  /\ SumLengths(C * S) > C * S * MaxAbsG
  /\ SumLengths(C * S) <= C * S * S * MaxAbsG

----------------------------------------------------------------------------
\* Every entry of the cursor force tensor is zero
CursorTensorZero == \A c \in Cs, p \in Ps : cursor_force_tensor[c][p] = ZERO

\* C11: at the integration phase of a step that read no held mouse button
\* (always so in a non-interactive world) every entry of Fc is zero, also when
\* an earlier step read a held button; and the rows of F the step computed hold
\* the kernel sums alone, no cursor force having been added to them.
C11_CursorTensorZeroWithoutButton ==
  pc = "integrate" =>
    /\ button = "none" => CursorTensorZero
    /\ ~conf.is_interactive => CursorTensorZero
    /\ \A c \in RowsOfStep : RowIsFrom(prev, c)

\* C11 witness: a step with no button held follows a step whose held button
\* set a particle in motion (zero mesh, so only the cursor can have moved it)
C11_Witness ==
  /\ pc = "integrate" /\ button = "none" /\ held /\ i >= 1 /\ ZeroMesh
  /\ \E c \in Cs, p \in Ps : cultures[c][p].vel /= ZERO
  /\ CursorTensorZero

----------------------------------------------------------------------------
\* The square the harness tree covers
QtB == QtRect(ZERO, Vec2(QtWorld, QtWorld))

\* How many insert calls were made with the point pt
InsertCount(pt) == Cardinality({k \in 1 .. Len(inserted) : inserted[k].point = pt})

\* The weighted points the query returned (none when it returned None)
EmittedPts == IF emitted[1].some THEN emitted[1].pts ELSE <<>>

\* The mass the first n emitted points put at the position pos
RECURSIVE EmittedMassUpTo(_, _)
EmittedMassUpTo(pos, n) ==
  IF n = 0 THEN 0
  ELSE EmittedMassUpTo(pos, n - 1)
         + (IF EmittedPts[n].pos = pos THEN EmittedPts[n].mass ELSE 0)

EmittedMass(pos) == EmittedMassUpTo(pos, Len(EmittedPts))

\* C12: with theta = 0 the query returns weighted points whose positions and
\* masses are exactly those of the points inserted inside B that lie within r
\* of q: every such point is returned with mass equal to the number of times
\* it was inserted (coincident points, points on the boundary of B), and
\* nothing else is returned.
C12_ThetaZeroIsExact ==
  (qpc = "queried" /\ query[1].theta.n = 0) =>
    /\ \A pt \in QtPoints :
         EmittedMass(RatOfPoint(pt)) =
           IF RectContains(QtB, pt) /\ ~FartherThan(query[1].q, RatOfPoint(pt), query[1].aoe)
           THEN InsertCount(pt) ELSE 0
    /\ \A n \in 1 .. Len(EmittedPts) :
         \E pt \in QtPoints : EmittedPts[n].pos = RatOfPoint(pt)

\* The nodes the returned points were taken from
EmittedFrom == IF emitted[1].some THEN emitted[1].from ELSE <<>>

\* For every leaf of t the set of nodes (named by their boundaries) whose
\* weighted point stands for it: the leaf and each of its ancestors (anc)
RECURSIVE CoverSets(_, _)
CoverSets(t, anc) ==
  IF t.kind = "Empty" THEN {}
  ELSE IF t.kind = "External" THEN {anc \cup {t.boundary}}
  ELSE UNION {CoverSets(t.children[k], anc \cup {t.boundary}) : k \in 1 .. 4}

\* C13: whatever the tree, the query point and theta, the query emits for
\* each leaf point at most one weighted point standing for it (the leaf itself
\* or the centre of mass of one ancestor, never two of these), and every
\* weighted point it emits lies within r of q.
C13_EachLeafOnceWithinR ==
  qpc = "queried" =>
    /\ \A cover \in CoverSets(tree, {}) :
         Cardinality({n \in 1 .. Len(EmittedFrom) : EmittedFrom[n] \in cover}) <= 1
    /\ \A n \in 1 .. Len(EmittedPts) :
         ~FartherThan(query[1].q, EmittedPts[n].pos, query[1].aoe)

\* C13 witness: a query with theta > 0 on a measured tree of three leaves
\* returned the centre of mass of two of them and the third leaf
C13_Witness ==
  /\ qpc = "queried" /\ query[1].theta.n > 0 /\ measured /= <<>>
  /\ Cardinality(CoverSets(tree, {})) = 3
  /\ \E m, n \in 1 .. Len(EmittedPts) : EmittedPts[m].mass = 2 /\ EmittedPts[n].mass = 1

\* The uniform-grid application has been constructed
GridPath == gstate /= <<>> /\ gstate.path = "grid"

\* C15 as stated: for every area of effect r the cell size W / ceil(W / (2r))
\* that GpuParams::new computes is at least 2r.
C15_BinAtLeastTwoAoe ==
  GridPath => gparams.bin_size.n >= 2 * gparams.aoe * gparams.bin_size.d

\* C15 amended: the cell size W / ceil(W / (2r)) is at most 2r, and it is at
\* least r whenever the world is at least 2r wide.
C15_BinBetweenAoeAndTwoAoe ==
  GridPath =>
    /\ gparams.bin_size.n <= 2 * gparams.aoe * gparams.bin_size.d
    /\ gparams.bound.x >= 2 * gparams.aoe =>
         gparams.bin_size.n >= gparams.aoe * gparams.bin_size.d

\* C15 witness: r = 30 gives 17 cells, each narrower than 2r and wider than r
C15_Witness ==
  /\ GridPath
  /\ gparams.aoe = 30 * Unit
  /\ gparams.grid_w = 17
  /\ gparams.bin_size.n < 2 * gparams.aoe * gparams.bin_size.d
  /\ gparams.bin_size.n > gparams.aoe * gparams.bin_size.d

\* C16: on both GPU paths every compute pass reads one particle buffer and
\* writes the other; each pass reads the buffer the pass before it wrote; the
\* buffer copied to the vertex buffer after a pass is the one that pass wrote;
\* so after every frame, however many passes it submitted at once, the vertex
\* buffer holds the output of the last pass, computed from the output of the
\* pass before it.
C16_DoubleBuffering ==
  gstate /= <<>> =>
    /\ \A t \in 1 .. Len(glog) :
         /\ glog[t].read /= glog[t].write
         /\ glog[t].copy = glog[t].write
         /\ t > 1 => glog[t].read = glog[t - 1].write
    /\ Len(glog) > 0 =>
         /\ gmem["V"].pass = Len(glog)
         /\ gmem["V"].from = Len(glog) - 1

\* C16 witness: three passes were encoded in one frame and submitted together
\* after an earlier frame had run a pass
C16_Witness ==
  /\ gstate /= <<>>
  /\ \E t \in 2 .. Len(glog) - 2 :
       /\ glog[t - 1].frame < glog[t].frame
       /\ glog[t].frame = glog[t + 2].frame

\* C20: every newly constructed world, the CPU Worlds and the GPU
\* applications alike, has each particle inside B with velocity exactly zero.
C20_NewParticlesAtRestInB ==
  /\ (pc = "idle" /\ i = 0) =>
       \A c \in DOMAIN cultures : \A p \in DOMAIN cultures[c] :
         InB(cultures[c][p].pos) /\ cultures[c][p].vel = ZERO
  /\ (gstate /= <<>> /\ gstate.frame = 0) =>
       \A n \in DOMAIN gparticles :
         /\ 0 <= gparticles[n].pos.x /\ gparticles[n].pos.x <= gparams.bound.x
         /\ 0 <= gparticles[n].pos.y /\ gparticles[n].pos.y <= gparams.bound.y
         /\ gparticles[n].vel = ZERO

\* Particle m lies within the area of effect of particle n
GridWithin(n, m) ==
  LET dx == gparticles[n].pos.x - gparticles[m].pos.x
      dy == gparticles[n].pos.y - gparticles[m].pos.y
  IN dx * dx + dy * dy <= gparams.aoe2

\* How often particle m was enumerated by the query made
GridSeen(m) == Cardinality({k \in 1 .. Len(gridq[1].seen) : gridq[1].seen[k] = m})

\* C14: on the uniform grid the 3x3 block of cells around a particle's cell,
\* clamped to the grid, enumerates every other particle within r of it exactly
\* once, particles on the walls x = W and y = W included.
C14_BlockEnumeratesNeighbours ==
  gridq /= <<>> =>
    \A m \in 1 .. Len(gparticles) :
      (m /= gridq[1].n /\ GridWithin(gridq[1].n, m)) => GridSeen(m) = 1

\* C17: a world constructed from the JSON another world exported has as
\* many cultures as the exported mesh has rows, whatever num_cultures was
\* configured, force tensors of that many rows, and a mesh equal to the
\* exported one element for element; exporting it gives the same JSON again.
C17_MeshRoundTrip ==
  npc \in {"imported", "reexported"} =>
    /\ mesh_json = <<exported[1].json>>
    /\ conf.num_cultures = VecLen(exported[1].mesh)
    /\ VecLen(cultures) = VecLen(exported[1].mesh)
    /\ VecLen(force_tensor) = VecLen(exported[1].mesh)
    /\ VecLen(cursor_force_tensor) = VecLen(exported[1].mesh)
    /\ gravity_mesh = exported[1].mesh
    /\ npc = "reexported" => exported[2].json = exported[1].json

\* C17 witness: a two-row mesh with a negative coefficient was exported,
\* imported under a configuration asking for another number of cultures, and
\* exported again after the imported world had stepped
C17_Witness ==
  /\ npc = "reexported"
  /\ VecLen(exported[1].mesh) = 2
  /\ 1 \in DOMAIN exported[1].mesh[0]
  /\ exported[1].mesh[0][1] < 0
  /\ i > 0

\* A World has been constructed by the construction harness
WorldExists == npc /= "rest"

\* The mesh is square, one row per culture and one coefficient per culture
\* in every row
MeshSquare ==
  /\ DOMAIN gravity_mesh = Cs
  /\ \A c1 \in DOMAIN gravity_mesh : DOMAIN gravity_mesh[c1] = Cs

\* C18: construction rejects every configuration with no cultures, empty
\* cultures, a non-positive area of effect or a supplied mesh that is not
\* square, so no World exists that has one of these.
C18_BadConfigRejected ==
  WorldExists => (C > 0 /\ S > 0 /\ conf.aoe2 > 0 /\ MeshSquare)

\* What one step of step may change: not the mesh, not the configuration,
\* not the shape of the cultures or of the two force tensors; and it indexes
\* nothing out of range
StepKeepsShape ==
  (pc /= "idle" \/ pc' /= "idle") =>
    /\ gravity_mesh' = gravity_mesh
    /\ conf' = conf
    /\ DOMAIN cultures' = Cs
    /\ DOMAIN force_tensor' = Cs
    /\ DOMAIN cursor_force_tensor' = Cs
    /\ \A c \in Cs :
         /\ DOMAIN cultures'[c] = Ps
         /\ DOMAIN force_tensor'[c] = Ps
         /\ DOMAIN cursor_force_tensor'[c] = Ps
    /\ pc' /= "panicked"

\* C19: step changes only positions, velocities, the force tensors and the
\* step counter; the mesh, the configuration, C, S and the C x S shape of F
\* and Fc stay as they were, and every index step uses is in range.
C19_StepKeepsShapeInRange == [][StepKeepsShape]_vars

\* C21: in the rolling World the force pass of step number i recomputes
\* exactly row i mod C of F, from the positions the step started with, and
\* leaves every other row as it was; nothing else writes F; so at every
\* integration each row is either still the zero row of construction or was
\* computed at most C - 1 steps ago, and each row is refreshed once in C steps.
C21_RollingRowRefresh ==
  [][conf.variant = "rolling" =>
       /\ pc /= "force" => force_tensor' = force_tensor
       /\ pc = "force" =>
            /\ row_i'[i % C] = i
            /\ \A k \in Ps : force_tensor'[i % C][k] = ExpectedF(prev, i % C, k)
            /\ \A c \in Cs \ {i % C} :
                 force_tensor'[c] = force_tensor[c] /\ row_i'[c] = row_i[c]
       /\ pc' = "integrate" =>
            \A c \in Cs :
              \/ row_i'[c] = -1 /\ \A k \in Ps : force_tensor'[c][k] = ZERO
              \/ row_i'[c] >= 0 /\ row_i'[c] % C = c /\ i' - row_i'[c] <= C - 1]_vars

\* C21 witness: the second step of a rolling World of two cultures integrates
\* with row 0 computed one step earlier, non-zero, from positions since left
C21_Witness ==
  /\ conf.variant = "rolling" /\ C = 2 /\ pc = "integrate" /\ i = 1
  /\ row_i[0] = 0 /\ row_i[1] = 1
  /\ \E k \in Ps : force_tensor[0][k] /= ZERO
  /\ cultures /= init

\* The number of insert calls that returned true
TrueInserts == Cardinality({n \in 1 .. Len(inserted) : inserted[n].ok})

\* C22: after any sequence of inserts and measure_nodes, the mass measured at
\* the root is the number of insert calls that returned true (nothing is
\* measured when there was none); a point colliding with a leaf point beyond
\* the depth cap adds one to that leaf's mass.
C22_RootMassCountsInserts ==
  qpc = "measured" =>
    IF TrueInserts = 0 THEN ~measured[1].some
    ELSE measured[1].some /\ measured[1].wp.mass = TrueInserts

\* The leaves below a node summed: their masses and their positions times
\* their masses
RECURSIVE LeafSum(_)
LeafSum(t) ==
  IF t.kind = "Empty" THEN [pos |-> RatOfPoint(ZERO), mass |-> 0]
  ELSE IF t.kind = "External"
  THEN [pos |-> RatScale(t.point.pos, t.point.mass), mass |-> t.point.mass]
  ELSE LET a == LeafSum(t.children[1])
           b == LeafSum(t.children[2])
           c == LeafSum(t.children[3])
           d == LeafSum(t.children[4])
       IN [pos |-> RatAdd(RatAdd(a.pos, b.pos), RatAdd(c.pos, d.pos)),
           mass |-> a.mass + b.mass + c.mass + d.mass]

\* Every internal node at or below t holds the mass and the mass-weighted
\* mean position of the leaves below it
RECURSIVE CmsAreMeans(_)
CmsAreMeans(t) ==
  t.kind = "Internal" =>
    /\ LET sum == LeafSum(t) IN
         sum.mass > 0 =>
           /\ t.cm.mass = sum.mass
           /\ t.cm.pos = RatDiv(sum.pos, sum.mass)
    /\ \A k \in 1 .. 4 : CmsAreMeans(t.children[k])

\* C23: after measure_nodes every internal node's centre of mass has the sum
\* of the masses of the leaves below it and their mass-weighted mean
\* position, also when the first non-empty child has a mass above 1.
C23_CmIsWeightedMean ==
  qpc = "measured" => CmsAreMeans(tree)

-----------------------------------------------------------------------------
\* The quadtree of src/wasm/src/sim.rs: points without mass, a rectangle that
\* excludes its edges, and a depth limit that refuses the insert.

SimDepthCap == 10

\* The side of the square the harness gives this tree: every corner of every
\* node down to depth SimDepthCap + 1 is an even integer, so odd points lie
\* strictly inside the deepest cells
SimWorld == 2 ^ (SimDepthCap + 2)

\* sim.rs Rect::contains: component-wise, both ends excluded
SimRectContains(r, pt) ==
  /\ pt.x > r.start.x /\ pt.y > r.start.y
  /\ pt.x < r.end.x /\ pt.y < r.end.y

\* The three shapes of the sim.rs QuadTree
SimEmpty(boundary) ==
  [kind |-> "Empty", boundary |-> boundary, point |-> ZERO, children |-> <<>>]

SimExternal(boundary, point) ==
  [kind |-> "External", boundary |-> boundary, point |-> point, children |-> <<>>]

SimInternal(boundary, children) ==
  [kind |-> "Internal", boundary |-> boundary, point |-> ZERO, children |-> children]

\* sim.rs QuadTree::subdivide
SimSubdivide(t) ==
  LET start == t.boundary.start
      end == t.boundary.end
      center == RectCenter(t.boundary)
      diff_x == Vec2(center.x - start.x, 0)
      diff_y == Vec2(0, center.y - start.y)
  IN <<SimEmpty(QtRect(start, center)),
       SimEmpty(QtRect(VAdd(start, diff_x), VAdd(center, diff_x))),
       SimEmpty(QtRect(VAdd(start, diff_y), VAdd(center, diff_y))),
       SimEmpty(QtRect(center, end))>>

RECURSIVE SimInsert(_, _, _)
RECURSIVE SimInsertAny(_, _, _, _)

\* children.iter_mut().any(|c| c.insert(point, depth + 1)); k is the child
\* tried next
SimInsertAny(children, pt, depth, k) ==
  IF k > 4 THEN [ok |-> FALSE, children |-> children]
  ELSE LET r == SimInsert(children[k], pt, depth)
           after == [children EXCEPT ![k] = r.tree]
       IN IF r.ok THEN [ok |-> TRUE, children |-> after]
          ELSE SimInsertAny(after, pt, depth, k + 1)

\* sim.rs QuadTree::insert. The External arm binds the leaf's own point under
\* the name point (ref point), which hides the parameter: the leaf's point is
\* what is tested and handed to the children, and the point of the call is
\* not stored.
SimInsert(t, pt, depth) ==
  IF depth > SimDepthCap THEN [ok |-> FALSE, tree |-> t]
  ELSE IF t.kind = "Empty"
  THEN IF ~SimRectContains(t.boundary, pt) THEN [ok |-> FALSE, tree |-> t]
       ELSE [ok |-> TRUE, tree |-> SimExternal(t.boundary, pt)]
  ELSE IF t.kind = "External"
  THEN IF ~SimRectContains(t.boundary, t.point) THEN [ok |-> FALSE, tree |-> t]
       ELSE LET any == SimInsertAny(SimSubdivide(t), t.point, depth + 1, 1)
            IN IF any.ok
               THEN [ok |-> TRUE, tree |-> SimInternal(t.boundary, any.children)]
               ELSE [ok |-> FALSE, tree |-> t]
  ELSE IF ~SimRectContains(t.boundary, pt) THEN [ok |-> FALSE, tree |-> t]
       ELSE LET any == SimInsertAny(t.children, pt, depth + 1, 1)
            IN [ok |-> any.ok, tree |-> [t EXCEPT !.children = any.children]]

\* Points offered to the sim.rs insert: a point on the edge x = 0, two odd
\* points of one cell of depth SimDepthCap, a point at the centre of a cell,
\* a point of another quadrant, one point outside the square
SimPoints ==
  {Vec2(0, 77), Vec2(1001, 1001), Vec2(1003, 1003), Vec2(SimWorld \div 4, SimWorld \div 4),
   Vec2(3001, 501), Vec2(SimWorld + 72, 5)}

SimB == QtRect(ZERO, Vec2(SimWorld, SimWorld))

InitSimQt ==
  /\ NewWorld(SimConfig("mq", 1, 1, Unit, FALSE), Mesh(<<<<0>>>>),
              [c \in {0} |-> [p \in {0} |-> Vec2(0, 0)]])
  /\ kin = NoCall
  /\ kout = NoResult
  /\ tree = SimEmpty(SimB)
  /\ inserted = <<>>
  /\ measured = <<>>
  /\ query = <<>>
  /\ emitted = <<>>
  /\ qpc = "simbuild"
  /\ GpuAtRest
  /\ CtorAtRest

\* tree.insert(&pt, 0) on the sim.rs tree
SimInsertCall ==
  /\ qpc = "simbuild"
  /\ Len(inserted) < MaxInserts
  /\ \E pt \in SimPoints :
       LET r == SimInsert(tree, pt, 0) IN
       /\ tree' = r.tree
       /\ inserted' = Append(inserted, [point |-> pt, ok |-> r.ok])
  /\ UNCHANGED <<worldVars, kernelVars, gpuVars, ctorVars, measured, query, emitted, qpc>>

NextSimQt == SimInsertCall

SpecSimQt == InitSimQt /\ [][NextSimQt]_vars

\* The points a tree of either kind holds: the number of leaves of the
\* sim.rs tree, the summed leaf masses of the qt.rs tree
RECURSIVE SimLeafCount(_)
SimLeafCount(t) ==
  IF t.kind = "Empty" THEN 0
  ELSE IF t.kind = "External" THEN 1
  ELSE SimLeafCount(t.children[1]) + SimLeafCount(t.children[2])
         + SimLeafCount(t.children[3]) + SimLeafCount(t.children[4])

RECURSIVE LeafAt(_, _, _)
LeafAt(t, pt, pc_) ==
  IF t.kind = "Empty" THEN FALSE
  ELSE IF t.kind = "External"
  THEN IF pc_ = "simbuild" THEN t.point = pt ELSE t.point.pos = RatOfPoint(pt)
  ELSE \E k \in 1 .. 4 : LeafAt(t.children[k], pt, pc_)

HeldPoints(t, pc_) == IF pc_ = "simbuild" THEN SimLeafCount(t) ELSE LeafSum(t).mass

\* C24: insert returns true exactly for the points of the closed square B
\* (edges such as x = 0 included, and also when the node reached holds a
\* point already); after a true return the tree holds one point more and has
\* a leaf at the inserted point; after a false return the tree is unchanged.
C24_InsertAcceptsClosedB ==
  [][Len(inserted') = Len(inserted) + 1 =>
       LET call == inserted'[Len(inserted')] IN
       /\ call.ok = RectContains(tree.boundary, call.point)
       /\ call.ok => /\ HeldPoints(tree', qpc) = HeldPoints(tree, qpc) + 1
                     /\ LeafAt(tree', call.point, qpc)
       /\ ~call.ok => tree' = tree]_vars

\* The points of the query in which one distance, from q to the node's
\* centre of mass, decides both the cutoff and the ratio, and a node beyond
\* the cutoff is skipped with everything below it
RECURSIVE QueryByCm(_, _, _, _)
QueryByCm(t, q, aoe, theta) ==
  IF t.kind = "Empty" THEN <<>>
  ELSE IF t.kind = "External"
  THEN IF FartherThan(q, t.point.pos, aoe) THEN <<>> ELSE <<t.point>>
  ELSE IF FartherThan(q, t.cm.pos, aoe) THEN <<>>
  ELSE IF WidthRatioBelowAt(t.boundary, q, t.cm.pos, theta) THEN <<t.cm>>
  ELSE QueryByCm(t.children[1], q, aoe, theta) \o QueryByCm(t.children[2], q, aoe, theta)
         \o QueryByCm(t.children[3], q, aoe, theta)
         \o QueryByCm(t.children[4], q, aoe, theta)

\* C25: on a measured tree the query returns what it would return if, for an
\* internal node, the distance from q to the node's centre of mass were used
\* both for the cutoff and for the ratio w / d < theta, and a node farther
\* than r were skipped without visiting its children.
C25_QueryUsesCmDistance ==
  (qpc = "queried" /\ measured /= <<>>) =>
    EmittedPts = QueryByCm(tree, query[1].q, query[1].aoe, query[1].theta)

\* The query returned the weighted point wp as the point of the node with
\* boundary b; it returned something from strictly below that node
ReturnedFrom(b, wp) ==
  \E n \in 1 .. Len(EmittedFrom) : EmittedFrom[n] = b /\ EmittedPts[n] = wp

ReturnedBelow(b) ==
  \E n \in 1 .. Len(EmittedFrom) :
    /\ EmittedFrom[n] /= b
    /\ RectContains(b, EmittedFrom[n].start) /\ RectContains(b, EmittedFrom[n].end)

NothingFrom(b) == \A n \in 1 .. Len(EmittedFrom) : EmittedFrom[n] /= b

\* The rule of the query at a visited node t and everything it visits below
RECURSIVE NodeRule(_)
NodeRule(t) ==
  LET q == query[1].q
      aoe == query[1].aoe
  IN IF t.kind = "Empty" THEN NothingFrom(t.boundary)
     ELSE IF t.kind = "External"
     THEN ReturnedFrom(t.boundary, t.point) <=> ~FartherThan(q, t.point.pos, aoe)
     ELSE IF WidthRatioBelow(t.boundary, q, query[1].theta)
     THEN /\ ReturnedFrom(t.boundary, t.cm) <=> ~FartherThan(q, t.cm.pos, aoe)
          /\ ~ReturnedBelow(t.boundary)
     ELSE /\ NothingFrom(t.boundary)
          /\ \A k \in 1 .. 4 : NodeRule(t.children[k])

\* C25 amended: for an internal node the ratio w / d < theta uses the distance
\* from q to the centre of the node's bounding box; the cutoff uses the
\* distance from q to the node's centre of mass and is applied only to a node
\* the ratio accepts, which is then returned or, beyond r, dropped, in both
\* cases without visiting its children; a node the ratio does not accept has
\* all its children visited, whatever its distance.
C25_RatioByBoxCentre ==
  qpc = "queried" => NodeRule(tree)

\* C25 witness: on a measured tree whose root has its centre of mass farther
\* than r from q, the query went below the root and returned a leaf
C25_Witness ==
  /\ qpc = "queried" /\ measured /= <<>>
  /\ tree.kind = "Internal"
  /\ FartherThan(query[1].q, tree.cm.pos, query[1].aoe)
  /\ \E n \in 1 .. Len(EmittedPts) : EmittedPts[n].mass = 1

\* The particles (numbered from 0) whose position lies in cell c
InCell(c) == {n - 1 : n \in {m \in 1 .. Len(gparticles) : CellIndex(gparams, gparticles[m].pos) = c}}

\* C26: on every tick of the grid path, when the count, offsets and build
\* passes are over, the counts sum to N, offsets is the exclusive prefix sum
\* of counts with offsets[G] = N, and bins is a permutation of [0, N) in which
\* the particles of cell c fill exactly bins[offsets[c] .. offsets[c + 1]),
\* whatever the order of the invocations, the host having zeroed the counts
\* buffer only.
C26_BinsPartitionEveryTick ==
  (bpc /= <<>> /\ bpc.pass = "force") =>
    LET G == NumBins(gparams)
        N == Len(gparticles)
    IN /\ PrefixSum(bin.counts, G) = N
       /\ \A c \in 0 .. G : bin.offsets[c] = PrefixSum(bin.counts, c)
       /\ bin.offsets[G] = N
       /\ {bin.bins[k] : k \in 0 .. N - 1} = 0 .. N - 1
       /\ \A c \in 0 .. G - 1 :
            {bin.bins[k] : k \in {j \in 0 .. N - 1 : bin.offsets[c] <= j /\ j < bin.offsets[c + 1]}}
              = InCell(c)

\* The same on the first tick alone
C26_FirstTick ==
  (bpc /= <<>> /\ bpc.tick = 1) => C26_BinsPartitionEveryTick

\* The depth of the deepest node of a tree of either kind, the root being at
\* depth 0
RECURSIVE NodeDepth(_)
NodeDepth(t) ==
  IF t.kind /= "Internal" THEN 0
  ELSE LET a == NodeDepth(t.children[1])
           b == NodeDepth(t.children[2])
           c == NodeDepth(t.children[3])
           d == NodeDepth(t.children[4])
           ab == IF a > b THEN a ELSE b
           cd == IF c > d THEN c ELSE d
       IN 1 + (IF ab > cd THEN ab ELSE cd)

\* C27: every insert returns (its result is recorded), also for a point that
\* is already in the tree or shares a deepest cell with one, and the tree
\* never has a node deeper than the depth cap plus one.
C27_InsertBoundedDepth ==
  /\ qpc \in {"build", "measured", "queried"} =>
       /\ NodeDepth(tree) <= DepthCap + 1
       /\ \A n \in 1 .. Len(inserted) : inserted[n].ok \in BOOLEAN
  /\ qpc = "simbuild" =>
       /\ NodeDepth(tree) <= SimDepthCap + 1
       /\ \A n \in 1 .. Len(inserted) : inserted[n].ok \in BOOLEAN

\* C27 witness: the same point was inserted twice, both calls returned, and
\* the tree has a node at the depth cap plus one
C27_Witness ==
  /\ qpc = "build"
  /\ \E m, n \in 1 .. Len(inserted) :
       m < n /\ inserted[m].point = inserted[n].point /\ inserted[m].ok /\ inserted[n].ok
  /\ NodeDepth(tree) = DepthCap + 1

\* The physics steps of the latest frame
PhysicsSteps == Cardinality({k \in 1 .. Len(gstate.events) : gstate.events[k] /= "render"})

\* A frame loop with an accumulator is running and has done a frame
FrameDone(paths) == gstate /= <<>> /\ gstate.path \in paths /\ gstate.frame > 0

\* C28: every frame of the fixed-timestep loops ends, having run at most
\* cap / dt physics steps whatever the frame time (at most 5 in the wgpu
\* application, at most 1 in the macroquad binaries) and leaving the
\* accumulator in [0, dt); the frame renders exactly once, after all its
\* physics steps.
C28_FrameLoopBounded ==
  /\ FrameDone({"grid"}) =>
       /\ PhysicsSteps <= MAX_ACC \div PHYS_DT /\ PhysicsSteps <= 5
       /\ 0 <= gstate.time_acc /\ gstate.time_acc < PHYS_DT
  /\ FrameDone({"bin/mq", "main"}) =>
       /\ PhysicsSteps <= MAX_ACCUMULATOR /\ PhysicsSteps <= 1
       /\ 0 <= gstate.acc /\ gstate.acc < SIM_TIMESTEP
  /\ FrameDone({"grid", "bin/mq", "main"}) =>
       /\ Len(gstate.events) = PhysicsSteps + 1
       /\ gstate.events[Len(gstate.events)] = "render"

\* C28 witness: a frame longer than the cap ran five physics steps in the
\* wgpu application and then rendered
C28_Witness ==
  /\ FrameDone({"grid"})
  /\ PhysicsSteps = 5
  /\ gstate.events[6] = "render"
  /\ gstate.time_acc = 0

\* C29: in a World built with gpu = true the assertion of GpuCompute::run
\* (as many positions as num_cultures * culture_size) never fails, also when
\* mesh_json has set the number of cultures; the list run returns has C * S
\* entries, and entry c * S + p of it is what F[c][p] holds afterwards.
C29_GpuRunSizesAgree ==
  gpu /= <<>> =>
    /\ pc /= "panicked"
    /\ gpu[1].num_particles = C * S
    /\ (i > 0 \/ pc \in {"cursor", "integrate"}) =>
         /\ Len(gpu[1].forces) = C * S
         /\ \A c \in Cs : \A p \in Ps : force_tensor[c][p] = gpu[1].forces[c * S + p + 1]

\* C29 witness: a World with gpu = true whose mesh_json gave it two cultures
\* where the configuration asked for another number has run the GPU pass,
\* which left a force that is not zero
C29_Witness ==
  /\ gpu /= <<>>
  /\ mesh_json /= <<>> /\ npc = "built"
  /\ C = 2 /\ S = 2
  /\ pc = "cursor"
  /\ Len(gpu[1].forces) = 4
  /\ force_tensor[1][0] = Vec2(3 * Unit, -Unit)
  /\ force_tensor[1][1] = Vec2(4 * Unit, -Unit)

\* The World is as World::new leaves it: no step made, every particle at
\* rest, both force tensors zero, one row per culture and one entry per
\* particle
FreshWorld(cnf, cul, f, fc, steps) ==
  /\ steps = 0
  /\ DOMAIN cul = 0 .. (cnf.num_cultures - 1)
  /\ DOMAIN f = DOMAIN cul /\ DOMAIN fc = DOMAIN cul
  /\ \A c \in DOMAIN cul :
       /\ DOMAIN cul[c] = 0 .. (cnf.culture_size - 1)
       /\ DOMAIN f[c] = DOMAIN cul[c] /\ DOMAIN fc[c] = DOMAIN cul[c]
       /\ \A p \in DOMAIN cul[c] :
            cul[c][p].vel = ZERO /\ f[c][p] = ZERO /\ fc[c][p] = ZERO

\* C30: a reset (key R or the button Run) replaces the whole World by one
\* built from the UI configuration as it is at that moment: its step counter
\* is 0, its velocities are zero, F and Fc are zero; between resets a change
\* of the UI configuration changes nothing of the running World, whose
\* configuration stays the one it was built with.
C30_ResetReplacesWorld ==
  [][app /= <<>> =>
       /\ app'.resets /= app.resets =>
            /\ conf'.num_cultures = app.conf.num_cultures
            /\ conf'.culture_size = app.conf.culture_size
            /\ conf'.aoe2 = app.conf.aoe * app.conf.aoe
            /\ FreshWorld(conf', cultures', force_tensor', cursor_force_tensor', i')
            /\ app'.conf = app.conf
       /\ app'.resets = app.resets =>
            /\ conf' = conf /\ gravity_mesh' = gravity_mesh
            /\ app'.conf /= app.conf => UNCHANGED worldVars]_vars

\* C30 witness: after the sliders were moved away from the configuration of
\* the running World, which had stepped (tau is the argument of its last
\* step), a reset has built the World of the new configuration
C30_Witness ==
  /\ app /= <<>> /\ app.resets = 1
  /\ i = 0 /\ pc = "idle"
  /\ C = 1 /\ S = 1
  /\ conf.aoe2 = (5 * Unit) * (5 * Unit)
  /\ FreshWorld(conf, cultures, force_tensor, cursor_force_tensor, i)
  /\ tau /= 0

====
